---- MODULE Spec2Model ----
(***************************************************************************)
(* Link layer of seestarpy: the control-channel listener                   *)
(* (events/event_listener.py), the event state store                       *)
(* (events/event_stream.py) and the streaming session reader (stream.py).  *)
(***************************************************************************)
EXTENDS Integers, Sequences, FiniteSets, TLC

(* ------------------------------ bounds -------------------------------- *)

\* start_listener calls that create a thread (thread ids are 1..MaxStarts)
MaxStarts == 2
\* lines that reach handle_event, over all connections
MaxLines == 1
\* length of the repeating pattern of event tags fed to the event store
MaxPattern == 3
\* events fed to the event store beyond the capacity of LATEST_LOGS
Overflow == 3
\* frames the device sends on the image channel of one streaming session
MaxFrames == 3
\* heartbeat rounds of one streaming session
MaxTicks == 2
\* bytes of a header buffer that differ from the filling of the buffer
MaxEdits == 2
\* by how many bytes a buffer given to parse_header is longer or shorter
\* than a header
MaxLenDelta == 1
\* pieces (lines, stray bytes, frames) the byte stream of the image socket
\* is made of before the device closes it
MaxItems == 3
\* the largest width and height of an image given to decode_payload
MaxDim == 2
\* the most bytes of zero padding before the archive entry of a payload
MaxPad == 1
\* the longest file name and extra field of the archive entry
MaxNameLen == 1
\* connections the listener opens one after the other
MaxConnects == 2
\* rounds of the listener's heartbeat on one connection
MaxBeats == 40

(* --------------------------- program constants ------------------------ *)

\* event_stream.py: LATEST_LOGS = deque(maxlen=500)
LogCapacity == 500
\* stream.py: HEADER_SIZE, MAGIC_NUMBER (0x03C3)
HEADER_SIZE == 34
MAGIC_NUMBER == 963
\* stream.py, _consume_json_line: the safety limit on the length of a line
JSON_LINE_LIMIT == 4096

NoneVal == 0
Threads == 1..MaxStarts

(* ------------------------------ messages ------------------------------ *)

\* A line read off the control channel, by what line.decode() and
\* json.loads() make of it:
\*   kind "badutf8": bytes that are not valid UTF-8
\*   kind "badjson": text that is not JSON
\*   kind "array":   valid JSON that is not an object
\*   kind "object":  a JSON object; Event is its "Event" member ("none" when
\*                   absent, "" when the empty string), hasResult whether it
\*                   has a "result" member, method its "method" member
\*                   ("none" when absent), body the rest of its content.
Line(k, e, r, m, b) == [kind |-> k, Event |-> e, hasResult |-> r, method |-> m, body |-> b]

Lines ==
    { Line("object", "A", FALSE, "none", 1),
      Line("object", "none", TRUE, "get_device_state", 1),
      Line("object", "A", TRUE, "get_device_state", 2),
      Line("object", "none", FALSE, "none", 1),
      Line("badjson", "none", FALSE, "none", 0),
      Line("badutf8", "none", FALSE, "none", 0),
      Line("array", "none", FALSE, "none", 0) }

VARIABLES
    \* event_listener.py module globals
    _listener_running, _shutdown_event, _listener_thread, _loop,
    \* asyncio.Event objects created so far that are set
    evSet,
    \* _shutdown_event.set calls handed to a loop by call_soon_threadsafe
    pending,
    \* the caller of start_listener / stop_listener
    callerPc,
    \* per listener thread: the position of run(); whether a heartbeat() task
    \* is alive ("alive") or not ("off": none created, or ended, or cancelled);
    \* whether websocket_server() is asked for ("wanted"), serving ("serving")
    \* or not there ("off"); the state of the connection run() holds
    runPc, hbPc, wsPc, sock,
    \* whether run() of the thread has seen _shutdown_event set
    observed,
    \* event_stream.py module globals
    LATEST_STATE, LATEST_LOGS,
    \* history: every argument handle_event was called with, in order
    handled,
    \* the tags of the events fed to the store directly, repeated in turn
    feed,
    \* stream.py, StreamSession attributes: is_running, _stop_event (whether
    \* the threading.Event is set), _sock ("open", or "closed" by stop()),
    \* _on_image ("none", "user", or the display wrapper "display" /
    \* "display_user"), _poll_stacked
    is_running, _stop_event, _sock, _on_image, _poll_stacked,
    \* the position of _reader_loop, of _heartbeat_loop (with its local
    \* tick), of each caller inside stop() and of the main thread about show()
    readerPc, heartbeatPc, tick, stopPc, showPc,
    \* the image channel: frames the device has sent so far (frame i is the
    \* i-th sent), whether the device still holds the connection open, and
    \* what the frame _read_frame returned last holds ("none" once handled)
    arrived, peerOpen, inHand,
    \* history: the frames _read_frame returned, the frames on_image was
    \* invoked with, and the number of on_image invocations that have ended
    readOff, delivered, cbFinished,
    \* history: the messages sent on the session socket, the frames the
    \* user's callback was invoked with, the first frame whose on_image
    \* invocation raised (0 when none did), whether _read_frame raised ("no",
    \* or "alone" with the stop event clear, or "stopping" with it set), and
    \* about the calls of stop():
    \* whether one returned at the guard (noops), one raised (raised), one
    \* went through line 724 (returned), one did so with the reader thread
    \* still alive (readerAlive)
    sent, userCalled, raisedAt, readFailed, stopHist,
    \* history: the on_image invocations begun with the stop event set, and
    \* the waits of the heartbeat loop that timed out
    afterStop, waits,
    \* a buffer of bytes, the number of its bytes set one by one, and what
    \* parse_header made of it (NotParsed before the call)
    buf, edits, parsed,
    \* the pieces of the byte stream a socket delivers before it is closed
    \* by the device, the number of its bytes received so far, and what the
    \* calls of _read_frame on it gave, in order
    items, rpos, frames,
    \* the header and the payload given to decode_payload, how the payload
    \* was put together and whether a byte of it was cut or set since, and
    \* what decode_payload made of it (NotDecoded before the call)
    imgHeader, imgPayload, built, touched, decoded,
    \* event_listener.py, one heartbeat() task after the other: the
    \* connections opened so far, the task's local hb_i and its position,
    \* the sleeps it has finished, whether the shutdown event is set, and
    \* history: the messages written, each with its connection and the
    \* sleeps finished before it
    conns, hb_i, beatPc, naps, beatShutdown, beatLog,
    \* get_live_image: its position, the state of the socket it made, and
    \* what it gave its caller
    livePc, liveSock, liveOut

listenerVars == <<_listener_running, _shutdown_event, _listener_thread, _loop>>
threadVars == <<runPc, hbPc, wsPc, sock, observed>>
storeVars == <<LATEST_STATE, LATEST_LOGS, handled>>
sessionVars == <<is_running, _stop_event, _sock, _on_image, _poll_stacked,
                 readerPc, heartbeatPc, tick, stopPc, showPc,
                 arrived, peerOpen, inHand, readOff, delivered, cbFinished,
                 sent, userCalled, raisedAt, readFailed, stopHist,
                 afterStop, waits>>
headerVars == <<buf, edits, parsed>>
wireVars == <<items, rpos, frames>>
decodeVars == <<imgHeader, imgPayload, built, touched, decoded>>
beatVars == <<conns, hb_i, beatPc, naps, beatShutdown, beatLog>>
liveVars == <<livePc, liveSock, liveOut>>
\* what no step of the listener changes
auxVars == <<feed, sessionVars, headerVars, wireVars, decodeVars, beatVars,
            liveVars>>
vars == <<_listener_running, _shutdown_event, _listener_thread, _loop, evSet,
          pending, callerPc, runPc, hbPc, wsPc, sock, observed,
          LATEST_STATE, LATEST_LOGS, handled, feed,
          is_running, _stop_event, _sock, _on_image, _poll_stacked,
          readerPc, heartbeatPc, tick, stopPc, showPc,
          arrived, peerOpen, inHand, readOff, delivered, cbFinished,
          sent, userCalled, raisedAt, readFailed, stopHist, afterStop, waits,
          buf, edits, parsed, items, rpos, frames,
          imgHeader, imgPayload, built, touched, decoded,
          conns, hb_i, beatPc, naps, beatShutdown, beatLog,
          livePc, liveSock, liveOut>>

(* --------------------------- event_stream.py --------------------------- *)

\* a test for an absent tag only, like `is not None`
TruthyUnlessAbsent(tag) == tag # "none"

\* bool(data.get("Event")): absent and empty tags are falsy
Truthy(tag) == tag \notin {"none", ""}

\* an upsert that keeps the entry already stored under the tag
StateUpsertKeepsFirst(state, data) ==
    [k \in DOMAIN state \cup {data.Event} |->
        IF k \in DOMAIN state THEN state[k] ELSE data]

\* LATEST_STATE[event_type] = data
StateUpsert(state, data) ==
    [k \in DOMAIN state \cup {data.Event} |->
        IF k = data.Event THEN data ELSE state[k]]

\* an append to a full deque that drops the new entry, not the oldest
DequeAppendDropsNew(logs, data) ==
    IF Len(logs) >= LogCapacity
    THEN logs
    ELSE Append(logs, data)

\* deque(maxlen=500).append(data): the oldest entry is dropped when full
DequeAppend(logs, data) ==
    IF Len(logs) >= LogCapacity
    THEN Append(Tail(logs), data)
    ELSE Append(logs, data)

\* handle_event(data) on (LATEST_STATE, LATEST_LOGS): the new pair
handle_event(state, logs, data) ==
    IF Truthy(data.Event)
    THEN <<StateUpsert(state, data), DequeAppend(logs, data)>>
    ELSE <<state, logs>>

(* -------------------------- event_listener.py -------------------------- *)

\* _shutdown_event.is_set() as a coroutine of any thread evaluates it: the
\* global is read at that moment; on None the call raises AttributeError
ShutdownState ==
    IF _shutdown_event = NoneVal THEN "none"
    ELSE IF _shutdown_event \in evSet THEN "set" ELSE "clear"

\* positions of run() at which its task is suspended in an await
AwaitPcs == {"connecting", "reading", "closing", "sleeping"}
\* positions at which the run loop of a thread has not ended
ActivePcs == AwaitPcs \cup {"loop_top"}
EndedPcs == {"done", "crashed", "cancelled"}

RunActive(t) == runPc[t] \in ActivePcs

\* threading.Thread.is_alive(): started and asyncio.run(main()) not returned
ThreadAlive(t) ==
    \/ runPc[t] = "created"
    \/ RunActive(t)
    \/ wsPc[t] = "serving"

\* loop.is_running() of the loop of thread t
LoopRunning(t) == runPc[t] # "created" /\ ThreadAlive(t)

\* the loop of thread t may run another task or callback: run() is
\* suspended in an await or has returned
LoopIdle(t) == LoopRunning(t) /\ runPc[t] \in AwaitPcs \cup EndedPcs

\* asyncio.run() cancels the tasks still pending when main() ends
CancelHb(h) == "off"
CancelWs(w) == "off"

\* lines 116-121: writer.close() when writer is not None
CloseWriter(s) == IF s = "none" THEN "none" ELSE "closed"

\* line 66, `while not _shutdown_event.is_set()`: where run() goes. The
\* AttributeError on None is raised outside the try and leaves run().
Line66(st) ==
    CASE st = "none" -> "crashed"
      [] st = "set" -> "done"
      [] OTHER -> "connecting"

\* line 75, the inner `while not _shutdown_event.is_set()`: where run() goes.
\* The AttributeError on None is raised inside the try, caught at line 108,
\* and like a set event leads to the teardown of lines 111-121.
Line75(st) == IF st = "clear" THEN "reading" ELSE "closing"

\* line 123 followed by a return instead of the sleep and the next round
Line123NoRetry(st) ==
    CASE st = "none" -> "crashed"
      [] st = "set" -> "loop_top"
      [] OTHER -> "done"

\* line 123, `if not _shutdown_event.is_set()`: where run() goes. The
\* AttributeError on None is raised outside the try and leaves run().
Line123(st) ==
    CASE st = "none" -> "crashed"
      [] st = "set" -> "loop_top"
      [] OTHER -> "sleeping"

\* lines 84-100 on one line: what json.loads() and the lines after it do
\*   "raise":   an exception other than JSONDecodeError leaves the inner try
\*   "discard": JSONDecodeError, caught at line 98
\*   "handle":  handle_event(data) is called
LineOutcome(ln) ==
    CASE ln.kind = "badutf8" -> "raise"
      [] ln.kind = "badjson" -> "discard"
      [] ln.kind = "array" -> "raise"
      [] OTHER -> "handle"

\* lines 89-92: a response is tagged with its method name
TagResponse(ln) ==
    IF ln.hasResult /\ ln.method # "none"
    THEN [ln EXCEPT !.Event = ln.method]
    ELSE ln

\* run() of thread t moves to position pc; hb is its heartbeat task's state
\* and s its connection's state after the step. An exception that leaves
\* run() makes gather() re-raise it: main() ends and asyncio.run() cancels
\* the thread's other tasks.
RunGoes(t, pc, hb, s) ==
    /\ runPc' = [runPc EXCEPT ![t] = pc]
    /\ hbPc' = [hbPc EXCEPT ![t] = IF pc = "crashed" THEN CancelHb(hb) ELSE hb]
    /\ wsPc' = [wsPc EXCEPT ![t] = IF pc = "crashed" THEN CancelWs(@) ELSE @]
    /\ sock' = [sock EXCEPT ![t] = s]
    /\ observed' = [observed EXCEPT ![t] = @ \/ ShutdownState = "set"]

\* the module globals of event_listener.py at import, no thread started
ListenerInit ==
    /\ _listener_running = FALSE
    /\ _shutdown_event = NoneVal
    /\ _listener_thread = NoneVal
    /\ _loop = NoneVal
    /\ evSet = {}
    /\ pending = {}
    /\ callerPc = "idle"
    /\ runPc = [t \in Threads |-> "unborn"]
    /\ hbPc = [t \in Threads |-> "off"]
    /\ wsPc = [t \in Threads |-> "off"]
    /\ sock = [t \in Threads |-> "none"]
    /\ observed = [t \in Threads |-> FALSE]

\* the module globals of event_stream.py at import
StoreEmpty ==
    /\ LATEST_STATE = << >>
    /\ LATEST_LOGS = << >>
    /\ handled = << >>

\* a StreamSession after line 797 of start_stream(): __init__ at lines
\* 562-572, begin_streaming sent, both threads started
SessionStarted ==
    /\ is_running = TRUE
    /\ _stop_event = FALSE
    /\ _sock = "open"
    /\ _poll_stacked = FALSE
    /\ readerPc = "check"
    /\ heartbeatPc = "waiting"
    /\ tick = 0
    /\ stopPc = [c \in {"main", "reader"} |-> "idle"]
    /\ showPc = "not_shown"
    /\ arrived = 0
    /\ inHand = "none"
    /\ peerOpen = TRUE
    /\ readOff = << >>
    /\ delivered = << >>
    /\ cbFinished = 0
    /\ sent = <<"begin_streaming">>
    /\ userCalled = << >>
    /\ raisedAt = 0
    /\ readFailed = "no"
    /\ stopHist = [noops |-> FALSE, raised |-> FALSE, returned |-> FALSE,
                   readerAlive |-> FALSE]
    /\ afterStop = 0
    /\ waits = 0

\* the value of parsed before parse_header is called
NotParsed == [called |-> FALSE]

\* no buffer has been given to parse_header
NoHeader ==
    /\ buf = << >>
    /\ edits = 0
    /\ parsed = NotParsed

\* no socket is read by _read_frame alone
NoWire ==
    /\ items = << >>
    /\ rpos = 0
    /\ frames = << >>

\* decode_payload has not been called
NotDecoded == [called |-> FALSE]

\* no payload has been given to decode_payload
NoDecode ==
    /\ imgHeader = [width |-> 0, height |-> 0]
    /\ imgPayload = << >>
    /\ built = [kind |-> "none"]
    /\ touched = FALSE
    /\ decoded = NotDecoded

\* no heartbeat() task is followed alone
NoBeat ==
    /\ conns = 0
    /\ hb_i = 0
    /\ beatPc = "off"
    /\ naps = 0
    /\ beatShutdown = FALSE
    /\ beatLog = << >>

\* get_live_image has not been called
NoLive ==
    /\ livePc = "idle"
    /\ liveSock = "none"
    /\ liveOut = "none"

Init ==
    /\ ListenerInit
    /\ StoreEmpty
    /\ feed = << >>
    /\ SessionStarted
    /\ _on_image = "none"
    /\ NoHeader
    /\ NoWire
    /\ NoDecode
    /\ NoBeat
    /\ NoLive

(* the caller's thread *)

Unborn == {t \in Threads : runPc[t] = "unborn"}

\* the caller calls start_listener() (a call that would create a thread
\* beyond MaxStarts is not made)
CallStart ==
    /\ UNCHANGED auxVars
    /\ callerPc = "idle"
    /\ _listener_running \/ Unborn # {}
    /\ callerPc' = "in_start"
    /\ UNCHANGED <<listenerVars, evSet, pending, threadVars, storeVars>>

\* the caller calls stop_listener()
CallStop ==
    /\ UNCHANGED auxVars
    /\ callerPc = "idle"
    /\ callerPc' = "in_stop"
    /\ UNCHANGED <<listenerVars, evSet, pending, threadVars, storeVars>>

\* lines 194-213: a new Event, a new daemon thread that will run main()
SpawnListener(with_websocket) ==
    LET t == CHOOSE x \in Unborn : \A y \in Unborn : x <= y IN
    /\ _listener_running' = TRUE
    /\ _shutdown_event' = t
    /\ _listener_thread' = t
    /\ runPc' = [runPc EXCEPT ![t] = "created"]
    /\ wsPc' = [wsPc EXCEPT ![t] = IF with_websocket THEN "wanted" ELSE "off"]
    /\ UNCHANGED <<_loop, evSet, pending, hbPc, sock, observed, storeVars>>

\* start_listener without the `if _listener_running: return` of lines 190-192
start_listener_unguarded(with_websocket) ==
    /\ UNCHANGED auxVars
    /\ callerPc = "in_start"
    /\ callerPc' = "idle"
    /\ IF Unborn = {}
       THEN UNCHANGED <<listenerVars, evSet, pending, threadVars, storeVars>>
       ELSE SpawnListener(with_websocket)

\* start_listener(with_websocket), lines 189-213
start_listener(with_websocket) ==
    /\ UNCHANGED auxVars
    /\ callerPc = "in_start"
    /\ callerPc' = "idle"
    /\ IF _listener_running
       THEN UNCHANGED <<listenerVars, evSet, pending, threadVars, storeVars>>
       ELSE SpawnListener(with_websocket)

\* stop_listener without the `if not _listener_running: return` of lines
\* 228-229
stop_listener_unguarded ==
    /\ UNCHANGED auxVars
    /\ callerPc = "in_stop"
    /\ callerPc' = "joining"
    /\ IF _loop # NoneVal /\ LoopRunning(_loop)
       THEN /\ pending' = pending \cup {<<_loop, _shutdown_event>>}
            /\ UNCHANGED evSet
       ELSE /\ evSet' = IF _shutdown_event # NoneVal
                        THEN evSet \cup {_shutdown_event} ELSE evSet
            /\ UNCHANGED pending
    /\ UNCHANGED <<listenerVars, threadVars, storeVars>>

\* stop_listener(), lines 227-236: return when not running, else signal the
\* shutdown (through the loop when it runs, directly otherwise)
stop_listener ==
    /\ UNCHANGED auxVars
    /\ callerPc = "in_stop"
    /\ IF ~_listener_running
       THEN /\ callerPc' = "idle"
            /\ UNCHANGED <<evSet, pending>>
       ELSE /\ callerPc' = "joining"
            /\ IF _loop # NoneVal /\ LoopRunning(_loop)
               THEN /\ pending' = pending \cup {<<_loop, _shutdown_event>>}
                    /\ UNCHANGED evSet
               ELSE /\ evSet' = IF _shutdown_event # NoneVal
                                THEN evSet \cup {_shutdown_event} ELSE evSet
                    /\ UNCHANGED pending
    /\ UNCHANGED <<listenerVars, threadVars, storeVars>>

\* Whether _listener_thread.join(timeout=10) can time out on thread t. Every
\* other wait of the thread is shorter than the 10 s: wait_for(timeout=2.0)
\* at line 77, sleep(3) at lines 54 and 124, sleep(1) at line 149; only
\* open_connection() at line 70 has no timeout of its own. When the 10 s have
\* passed the loop has long run the queued set() and the 1 s poll of
\* websocket_server() has seen it.
JoinTimesOut(t) ==
    /\ runPc[t] = "connecting"
    /\ wsPc[t] # "serving"
    /\ \A e \in Threads : <<t, e>> \notin pending

\* stop_listener(), lines 239-245: _listener_thread.join(timeout=10) returns,
\* because the thread has ended or because the timeout has passed, and the
\* globals are cleared
stop_listener_join ==
    /\ UNCHANGED auxVars
    /\ callerPc = "joining"
    /\ \/ _listener_thread = NoneVal
       \/ ~ThreadAlive(_listener_thread)
       \/ JoinTimesOut(_listener_thread)
    /\ callerPc' = "idle"
    /\ _listener_running' = FALSE
    /\ _listener_thread' = NoneVal
    /\ _shutdown_event' = NoneVal
    /\ _loop' = NoneVal
    /\ UNCHANGED <<evSet, pending, threadVars, storeVars>>

(* a listener thread: asyncio.run(main()) *)

\* thread_entry -> main(), lines 197-209: _loop is set, the tasks are
\* created, and run() takes its first step up to line 66. wsOk: whether
\* websockets.serve() (line 146) binds its port; when it raises, gather()
\* re-raises, main() ends and run() is cancelled in open_connection()
\* (lines 102-103).
ThreadMain(t, wsOk) ==
    /\ UNCHANGED auxVars
    /\ runPc[t] = "created"
    /\ wsOk \/ wsPc[t] = "wanted"
    /\ _loop' = t
    /\ LET pc == Line66(ShutdownState) IN
       /\ runPc' = [runPc EXCEPT ![t] =
               IF pc = "connecting" /\ ~wsOk THEN "cancelled" ELSE pc]
       /\ wsPc' = [wsPc EXCEPT ![t] =
               IF @ = "wanted" /\ wsOk /\ pc # "crashed" THEN "serving" ELSE "off"]
    /\ observed' = [observed EXCEPT ![t] = ShutdownState = "set"]
    /\ UNCHANGED <<_listener_running, _shutdown_event, _listener_thread,
                   evSet, pending, callerPc, hbPc, sock, storeVars>>

\* line 66 evaluated after line 123 found the event set
RunLoopTop(t) ==
    /\ UNCHANGED auxVars
    /\ runPc[t] = "loop_top"
    /\ LET pc == Line66(ShutdownState) IN
       RunGoes(t, pc, hbPc[t], IF pc = "connecting" THEN "none" ELSE sock[t])
    /\ UNCHANGED <<listenerVars, evSet, pending, callerPc, storeVars>>

\* line 124: asyncio.sleep(3) returns, then line 66
RunSleepDone(t) ==
    /\ UNCHANGED auxVars
    /\ runPc[t] = "sleeping"
    /\ LET pc == Line66(ShutdownState) IN
       RunGoes(t, pc, hbPc[t], IF pc = "connecting" THEN "none" ELSE sock[t])
    /\ UNCHANGED <<listenerVars, evSet, pending, callerPc, storeVars>>

\* line 70: open_connection() returns a connection; line 73 creates the
\* heartbeat task; line 75 is evaluated (and, when it ends the inner loop,
\* lines 111-119 cancel the heartbeat and close the writer)
RunConnectOk(t) ==
    /\ UNCHANGED auxVars
    /\ runPc[t] = "connecting"
    /\ LET pc == Line75(ShutdownState) IN
       RunGoes(t, pc, IF pc = "reading" THEN "alive" ELSE "off",
               IF pc = "reading" THEN "open" ELSE "closed")
    /\ UNCHANGED <<listenerVars, evSet, pending, callerPc, storeVars>>

\* line 70: open_connection() raises (refused, unreachable, timed out);
\* caught at line 108, writer is None, line 123 follows at once
RunConnectFail(t) ==
    /\ UNCHANGED auxVars
    /\ runPc[t] = "connecting"
    /\ RunGoes(t, Line123(ShutdownState), CancelHb(hbPc[t]), "none")
    /\ UNCHANGED <<listenerVars, evSet, pending, callerPc, storeVars>>

\* lines 77-82: wait_for() times out, `continue`, line 75
RunReadTimeout(t) ==
    /\ UNCHANGED auxVars
    /\ runPc[t] = "reading"
    /\ sock[t] = "open"
    /\ LET pc == Line75(ShutdownState) IN
       RunGoes(t, pc, IF pc = "reading" THEN hbPc[t] ELSE CancelHb(hbPc[t]),
               IF pc = "reading" THEN sock[t] ELSE CloseWriter(sock[t]))
    /\ UNCHANGED <<listenerVars, evSet, pending, callerPc, storeVars>>

\* RunReadError without the writer.close() of lines 116-119
RunReadErrorLeavesOpen(t) ==
    /\ UNCHANGED auxVars
    /\ runPc[t] = "reading"
    /\ sock[t] = "broken"
    /\ RunGoes(t, "closing", CancelHb(hbPc[t]), sock[t])
    /\ UNCHANGED <<listenerVars, evSet, pending, callerPc, storeVars>>

\* lines 77-80: readuntil() raises on a lost connection (IncompleteReadError,
\* ConnectionResetError or another OSError); caught at line 105 or 108;
\* lines 111-119
RunReadError(t) ==
    /\ UNCHANGED auxVars
    /\ runPc[t] = "reading"
    /\ sock[t] = "broken"
    /\ RunGoes(t, "closing", CancelHb(hbPc[t]), CloseWriter(sock[t]))
    /\ UNCHANGED <<listenerVars, evSet, pending, callerPc, storeVars>>

\* lines 77-100: a line arrives and is processed, then line 75
RunReadLine(t, ln) ==
    /\ UNCHANGED auxVars
    /\ runPc[t] = "reading"
    /\ sock[t] = "open"
    /\ LineOutcome(ln) = "handle" => Len(handled) < MaxLines
    /\ LET out == LineOutcome(ln)
           data == TagResponse(ln)
           pc == IF out = "raise" THEN "closing" ELSE Line75(ShutdownState)
           store == handle_event(LATEST_STATE, LATEST_LOGS, data)
       IN
       /\ RunGoes(t, pc, IF pc = "reading" THEN hbPc[t] ELSE CancelHb(hbPc[t]),
                  IF pc = "reading" THEN sock[t] ELSE CloseWriter(sock[t]))
       /\ IF out = "handle"
          THEN /\ LATEST_STATE' = store[1]
               /\ LATEST_LOGS' = store[2]
               /\ handled' = Append(handled, data)
          ELSE UNCHANGED storeVars
    /\ UNCHANGED <<listenerVars, evSet, pending, callerPc>>

\* line 119: writer.wait_closed() returns, then line 123
RunClosed(t) ==
    /\ UNCHANGED auxVars
    /\ runPc[t] = "closing"
    /\ RunGoes(t, Line123(ShutdownState), hbPc[t], sock[t])
    /\ UNCHANGED <<listenerVars, evSet, pending, callerPc, storeVars>>

\* heartbeat(), lines 35-54, one round: line 35 is evaluated (AttributeError
\* on None ends the task), a message is written, and drain() raises when the
\* connection is lost
HbStep(t) ==
    /\ UNCHANGED auxVars
    /\ hbPc[t] = "alive"
    /\ LoopIdle(t)
    /\ hbPc' = [hbPc EXCEPT ![t] =
            IF ShutdownState = "clear" /\ sock[t] = "open"
            THEN "alive" ELSE "off"]
    /\ UNCHANGED <<listenerVars, evSet, pending, callerPc, runPc, wsPc, sock,
                   observed, storeVars>>

\* the device closes or resets the connection
SocketBreak(t) ==
    /\ UNCHANGED auxVars
    /\ runPc[t] = "reading"
    /\ sock[t] = "open"
    /\ sock' = [sock EXCEPT ![t] = "broken"]
    /\ UNCHANGED <<listenerVars, evSet, pending, callerPc, runPc, hbPc, wsPc,
                   observed, storeVars>>

\* the loop of thread t runs a callback that call_soon_threadsafe queued:
\* the captured Event's set()
LoopCallback(t) ==
    /\ UNCHANGED auxVars
    /\ LoopIdle(t)
    /\ \E e \in Threads :
        /\ <<t, e>> \in pending
        /\ pending' = pending \ {<<t, e>>}
        /\ evSet' = evSet \cup {e}
    /\ UNCHANGED <<listenerVars, callerPc, threadVars, storeVars>>

\* a task other than run() raises: gather() re-raises it, main() ends and
\* asyncio.run() cancels run() (lines 102-103 when it waits inside the try)
\* and the heartbeat
CancelRun(t) ==
    /\ runPc' = [runPc EXCEPT ![t] = IF RunActive(t) THEN "cancelled" ELSE @]
    /\ hbPc' = [hbPc EXCEPT ![t] = CancelHb(@)]

\* websocket_server(), lines 148-151: the poll of _shutdown_event; the
\* AttributeError on None ends the task with an exception
WsPoll(t) ==
    /\ UNCHANGED auxVars
    /\ wsPc[t] = "serving"
    /\ LoopIdle(t)
    /\ ShutdownState # "clear"
    /\ wsPc' = [wsPc EXCEPT ![t] = "off"]
    /\ IF ShutdownState = "none"
       THEN CancelRun(t)
       ELSE UNCHANGED <<runPc, hbPc>>
    /\ UNCHANGED <<listenerVars, evSet, pending, callerPc, sock, observed,
                   storeVars>>

CallerStep ==
    \/ CallStart
    \/ CallStop
    \/ \E ws \in BOOLEAN : start_listener(ws)
    \/ stop_listener
    \/ stop_listener_join

RunStep(t) ==
    \/ \E wsOk \in BOOLEAN : ThreadMain(t, wsOk)
    \/ RunLoopTop(t)
    \/ RunSleepDone(t)
    \/ RunConnectOk(t)
    \/ RunConnectFail(t)
    \/ RunReadTimeout(t)
    \/ RunReadError(t)
    \/ \E ln \in Lines : RunReadLine(t, ln)
    \/ RunClosed(t)

LoopStep(t) ==
    \/ HbStep(t)
    \/ LoopCallback(t)
    \/ WsPoll(t)

Next ==
    \/ CallerStep
    \/ \E t \in Threads : RunStep(t) \/ LoopStep(t) \/ SocketBreak(t)

Spec == Init /\ [][Next]_vars

\* What the scheduling guarantees: a coroutine that can take a step takes
\* it (open_connection() returns or raises, wait_for() and sleep() time out),
\* the loop runs its callbacks and tasks, and a call that has been entered
\* runs (join() has a timeout). Nothing makes the caller call, the device
\* send a line or the connection break.
RunInternal(t) ==
    \/ \E wsOk \in BOOLEAN : ThreadMain(t, wsOk)
    \/ RunLoopTop(t)
    \/ RunSleepDone(t)
    \/ RunConnectOk(t)
    \/ RunConnectFail(t)
    \/ RunReadTimeout(t)
    \/ RunReadError(t)
    \/ RunClosed(t)

Fairness ==
    /\ \A t \in Threads :
        /\ WF_vars(RunInternal(t))
        /\ WF_vars(HbStep(t))
        /\ WF_vars(LoopCallback(t))
        /\ WF_vars(WsPoll(t))
    /\ WF_vars(\E ws \in BOOLEAN : start_listener(ws))
    /\ WF_vars(stop_listener)
    /\ WF_vars(stop_listener_join)

FairSpec == Init /\ [][Next]_vars /\ Fairness

(* ---------------------- claims: the listener --------------------------- *)

\* stop_listener() has signalled the shutdown of the listener that thread t
\* belongs to: t was started and is no longer the listener thread of the
\* globals, or the caller is past the signal in stop_listener()
StopRequested(t) ==
    /\ runPc[t] # "unborn"
    /\ _listener_thread # t \/ callerPc = "joining"

\* C1: at any time at most one listener run loop is connected and feeding
\* LATEST_STATE / LATEST_LOGS, whatever start_listener / stop_listener calls
\* were made (also after a join that timed out).
C1_SingleWriter ==
    Cardinality({t \in Threads : runPc[t] = "reading"}) <= 1

\* C2: a start_listener call made while the listener is running returns
\* and changes nothing: no thread, no connection, no new shutdown event.
C2_StartWhileRunningIsNoOp ==
    [][(callerPc = "in_start" /\ callerPc' # "in_start" /\ _listener_running)
        => /\ callerPc' = "idle"
           /\ UNCHANGED <<listenerVars, evSet, pending, threadVars, storeVars>>]_vars

\* C2 witness: start_listener is called while a listener runs and is connected
C2_Witness ==
    /\ callerPc = "in_start"
    /\ _listener_running
    /\ \E t \in Threads : _listener_thread = t /\ runPc[t] = "reading"

\* C3: a stop_listener call made while no listener is running returns and
\* leaves the listener state and the event store unchanged.
C3_StopWhenNotRunningIsNoOp ==
    [][(callerPc = "in_stop" /\ callerPc' # "in_stop" /\ ~_listener_running)
        => /\ callerPc' = "idle"
           /\ UNCHANGED <<listenerVars, evSet, pending, threadVars, storeVars>>]_vars

\* C3 witness: stop_listener is called after a listener was started and
\* stopped, with events in the store
C3_Witness ==
    /\ callerPc = "in_stop"
    /\ ~_listener_running
    /\ \E t \in Threads : runPc[t] = "done"
    /\ LATEST_LOGS # << >>

\* lines that are not a well-formed JSON object
MalformedLines == {ln \in Lines : ln.kind # "object"}

\* C4: while connected and not asked to stop, a line that is not a
\* well-formed JSON object is discarded: the store is unchanged and the
\* listener stays connected on the same socket.
C4_MalformedLineDiscarded ==
    [][\A t \in Threads : \A ln \in MalformedLines :
        (RunReadLine(t, ln) /\ ShutdownState = "clear")
            => /\ runPc'[t] = "reading"
               /\ sock'[t] = "open"
               /\ hbPc'[t] = hbPc[t]
               /\ UNCHANGED storeVars]_vars

\* a socket error is pending on the connection of thread t
SocketError(t) == runPc[t] = "reading" /\ sock[t] = "broken"

\* both activities of thread t are stopped and its socket is closed
TornDown(t) ==
    /\ runPc[t] # "reading"
    /\ hbPc[t] = "off"
    /\ sock[t] = "closed"

\* C5: after a socket error both the heartbeat and the reader are stopped
\* and the socket is closed; when no stop was requested the listener then
\* waits the delay and goes back to connecting.
C5_SocketErrorReconnects ==
    \A t \in Threads :
        /\ SocketError(t) ~> TornDown(t)
        /\ (SocketError(t) /\ ~StopRequested(t))
              ~> ((runPc[t] = "sleeping" /\ TornDown(t)) \/ StopRequested(t))
        /\ (runPc[t] = "sleeping" /\ ~StopRequested(t))
              ~> (runPc[t] = "connecting" \/ StopRequested(t))

\* C5 witness: the heartbeat's send has failed on a lost connection (no stop
\* requested) and the reader has yet to see the error
C5_Witness ==
    \E t \in Threads :
        /\ SocketError(t)
        /\ hbPc[t] = "off"
        /\ ~StopRequested(t)
        /\ ShutdownState = "clear"

\* C6 as claimed: the run loop of a listener nobody asked to stop never ends
C6_NeverEndsUnlessStopped ==
    \A t \in Threads : runPc[t] \in EndedPcs => StopRequested(t)

\* C6 amended: the run loop of a listener nobody asked to stop ends only by
\* cancellation; after a connection failure or socket error it connects anew.
C6_EndsOnlyByStopOrCancel ==
    /\ [](\A t \in Threads :
            runPc[t] \in EndedPcs => (StopRequested(t) \/ runPc[t] = "cancelled"))
    /\ \A t \in Threads :
          (runPc[t] \in {"closing", "sleeping"} /\ ~StopRequested(t))
              ~> (runPc[t] = "connecting" \/ StopRequested(t))

\* C6 witness: a connection attempt has failed, no stop was requested, and
\* the loop waits to connect again
C6_Witness ==
    \E t \in Threads :
        /\ runPc[t] = "sleeping"
        /\ sock[t] = "none"
        /\ ~StopRequested(t)

\* C7: once a stop has been requested the run loop eventually ends, and it
\* opens no connection after it has seen the request.
C7_StopTerminatesRun ==
    /\ \A t \in Threads : StopRequested(t) ~> ~RunActive(t)
    /\ [][\A t \in Threads :
            observed[t] => ~(runPc[t] # "connecting" /\ runPc'[t] = "connecting")]_vars

(* ------------------------ the event store alone ------------------------ *)

\* The store fed with the messages the read loop hands to handle_event
\* (lines 86-94): the n-th message carries the tag
\* feed[((n-1) % Len(feed)) + 1] ("none": no "Event" member, "": the empty
\* string) and the body n, or it is a response, with a "result", a "method"
\* and no "Event".

StoreTags == {"A", "B", "none", "", "response"}

FeedPatterns == UNION {[1..n -> StoreTags] : n \in 1..MaxPattern}

FeedLimit == LogCapacity + Overflow

NextEvent ==
    LET n == Len(handled) + 1
        t == feed[((n - 1) % Len(feed)) + 1]
    IN  IF t = "response"
        THEN TagResponse(Line("object", "none", TRUE, "get_device_state", n))
        ELSE TagResponse(Line("object", t, FALSE, "none", n))

StoreInit ==
    /\ ListenerInit
    /\ StoreEmpty
    /\ feed \in FeedPatterns
    /\ SessionStarted
    /\ _on_image = "none"
    /\ NoHeader
    /\ NoWire
    /\ NoDecode
    /\ NoBeat
    /\ NoLive

\* handle_event(data) for the next event of the feed
Feed ==
    /\ Len(handled) < FeedLimit
    /\ LET store == handle_event(LATEST_STATE, LATEST_LOGS, NextEvent) IN
       /\ LATEST_STATE' = store[1]
       /\ LATEST_LOGS' = store[2]
    /\ handled' = Append(handled, NextEvent)
    /\ UNCHANGED <<listenerVars, evSet, pending, callerPc, threadVars, feed,
                   sessionVars, headerVars, wireVars,
                   decodeVars, beatVars, liveVars>>

StoreNext == Feed

StoreSpec == StoreInit /\ [][StoreNext]_vars

(* ---------------------- claims: the event store ------------------------ *)

IsTagged(data) == Truthy(data.Event)

\* the tagged events handle_event was applied to, in order
TaggedEvents == SelectSeq(handled, IsTagged)

\* the index in handled of the last event with tag k at or before i (0: none)
RECURSIVE LastWith(_, _)
LastWith(k, i) ==
    IF i = 0 THEN 0
    ELSE IF handled[i].Event = k THEN i
    ELSE LastWith(k, i - 1)

\* C8: LATEST_STATE has exactly one key per distinct tag seen, and each key
\* maps to the most recent event with that tag.
C8_LastWriterWins ==
    /\ DOMAIN LATEST_STATE =
          {handled[i].Event : i \in {j \in 1..Len(handled) : IsTagged(handled[j])}}
    /\ \A k \in DOMAIN LATEST_STATE :
          /\ LastWith(k, Len(handled)) > 0
          /\ LATEST_STATE[k] = handled[LastWith(k, Len(handled))]

\* C8 witness: events tagged A, B, A were handled; the store has two keys
\* and holds the second A
C8_Witness ==
    /\ Len(handled) = 3
    /\ handled[1].Event = "A" /\ handled[2].Event = "B" /\ handled[3].Event = "A"
    /\ Cardinality(DOMAIN LATEST_STATE) = 2
    /\ LATEST_STATE["A"].body = 3

Min(a, b) == IF a < b THEN a ELSE b

\* C9: LATEST_LOGS holds the last min(n, 500) of the n tagged events, oldest
\* first, and never more than 500.
C9_LogsAreLastEvents ==
    LET n == Len(TaggedEvents)
        m == Min(n, LogCapacity)
    IN /\ Len(LATEST_LOGS) <= LogCapacity
       /\ LATEST_LOGS = SubSeq(TaggedEvents, n - m + 1, n)

\* C9 witness: more tagged events than the capacity were handled and the
\* oldest were evicted
C9_Witness ==
    /\ Len(TaggedEvents) = LogCapacity + Overflow
    /\ Len(LATEST_LOGS) = LogCapacity
    /\ LATEST_LOGS[1] = TaggedEvents[Overflow + 1]
    /\ LATEST_LOGS[LogCapacity] = TaggedEvents[LogCapacity + Overflow]

(***************************************************************************)
(* stream.py: one StreamSession, its reader thread, its heartbeat thread   *)
(* and the callers of show() and stop().  The device is the peer of the    *)
(* image socket: it sends frames, which TCP hands over in the order sent,  *)
(* and may close.                                                          *)
(***************************************************************************)

\* A frame, by what decode_payload (lines 110-169) makes of it:
\*   "image":   width, height > 0 and a payload that decodes
\*   "ack":     width or height 0, or a payload of neither the Bayer nor
\*              the RGB size
\*   "corrupt": the archive signature followed by a stream zlib rejects
FrameKinds == {"image", "ack", "corrupt"}

\* decode_payload(payload, header): "array" when it returns, or the
\* exception it raises (line 148, line 166, zlib.decompress at line 310)
DecodeOutcome(kind) ==
    CASE kind = "image" -> "array"
      [] kind = "ack" -> "ValueError"
      [] OTHER -> "zlib.error"

\* _display_callback(header, payload), lines 611-624: whether it raises.
\* Only ValueError is caught at line 617.
DisplayCallbackRaises(kind) ==
    DecodeOutcome(kind) \notin {"array", "ValueError"}

\* the values of self._on_image: None, the user's callable, or the wrapper
\* _on_image_with_display of lines 789-792 around user_cb (None or not)
WithDisplay == {"display", "display_user"}
HasUserCb == {"user", "display_user"}

\* the threads that call stop(): the main thread, and the reader thread
\* when the user's callback calls it
Callers == {"main", "reader"}

\* the frame _read_frame(self._sock) returns next: the bytes of the socket
\* are consumed in order, so it is the one after the last frame returned
NextFrame == Len(readOff) + 1

\* a reader that drops the frame in hand once the stop event is set
ReaderSkipsWhenStopping(on_image, stopping) ==
    IF on_image = "none" \/ stopping THEN "check" ELSE "callback"

\* line 602 with a frame in hand: where _reader_loop goes. Only
\* self._on_image decides; the stop event is not looked at before line 595.
ReaderAfterFrame(on_image, stopping) ==
    IF on_image = "none" THEN "check" ELSE "callback"

\* a reader without the except clause of line 605
CallbackErrorEndsReader(raises) == IF raises THEN "exited" ELSE "check"

\* lines 603-606: where _reader_loop goes when the callback has ended,
\* normally or with an exception, which is printed
AfterCallback(raises) == "check"

\* a stop() without the guard
StopGuardAbsent(running, stopping) == FALSE

\* line 709: `if not self.is_running and self._stop_event.is_set()`
StopGuard(running, stopping) == ~running /\ stopping

\* sendall on the session socket: it raises OSError on a socket stop()
\* closed, succeeds while the device holds the connection, and may do
\* either once the device has closed
SendMayBe(fails) ==
    /\ _sock = "closed" => fails
    /\ (_sock = "open" /\ peerOpen) => ~fails

\* the request for the stacked image on the odd ticks
HeartbeatMessageOddTicks ==
    IF _poll_stacked /\ tick % 2 = 1 THEN "get_stacked_img"
    ELSE "test_connection"

\* the heartbeat's message at lines 585-588
HeartbeatMessage ==
    IF _poll_stacked /\ tick % 2 = 0 THEN "get_stacked_img"
    ELSE "test_connection"

\* the device sends one more frame
FrameArrives ==
    /\ peerOpen
    /\ arrived < MaxFrames
    /\ arrived' = arrived + 1
    /\ UNCHANGED <<is_running, _stop_event, _sock, _on_image, _poll_stacked,
                   readerPc, heartbeatPc, tick, stopPc, peerOpen, inHand,
                   readOff, delivered, cbFinished, sent, showPc, userCalled,
                   raisedAt, stopHist, readFailed, afterStop, waits>>

\* the device closes the connection
PeerCloses ==
    /\ peerOpen
    /\ peerOpen' = FALSE
    /\ UNCHANGED <<is_running, _stop_event, _sock, _on_image, _poll_stacked,
                   readerPc, heartbeatPc, tick, stopPc, arrived, inHand,
                   readOff, delivered, cbFinished, sent, showPc, userCalled,
                   raisedAt, stopHist, readFailed, afterStop, waits>>

\* a loop that does not look at the stop event
ReaderContinuesAlways(stopping) == TRUE

\* line 595: `while not self._stop_event.is_set()`
ReaderContinues(stopping) == ~stopping

\* line 595, the loop condition, and line 607 when it fails
ReaderCheck ==
    /\ readerPc = "check"
    /\ IF ReaderContinues(_stop_event)
         THEN readerPc' = "reading" /\ UNCHANGED is_running
         ELSE readerPc' = "exited" /\ is_running' = FALSE
    /\ UNCHANGED <<_stop_event, _sock, _on_image, _poll_stacked,
                   heartbeatPc, tick, stopPc, arrived, inHand, peerOpen,
                   readOff, delivered, cbFinished, sent, showPc, userCalled,
                   raisedAt, stopHist, readFailed, afterStop, waits>>

\* line 597: _read_frame returns the next frame.  A recv() that was already
\* blocked when stop() closed the socket is not woken by the close and may
\* still complete the frame; the recv() after it raises (ReaderReadFails).
ReaderReadFrame(kind) ==
    /\ readerPc = "reading"
    /\ NextFrame <= arrived
    /\ readOff' = Append(readOff, NextFrame)
    /\ inHand' = kind
    /\ readerPc' = "have_frame"
    /\ UNCHANGED <<is_running, _stop_event, _sock, _on_image, _poll_stacked,
                   heartbeatPc, tick, stopPc, arrived, peerOpen,
                   delivered, cbFinished, sent, showPc, userCalled,
                   raisedAt, stopHist, readFailed, afterStop, waits>>

\* lines 597-601 and 607: _read_frame raises, because stop() closed the
\* socket (OSError) or the device closed it with no whole frame left
\* (ConnectionError); the loop breaks
ReaderReadFails ==
    /\ readerPc = "reading"
    /\ \/ _sock = "closed"
       \/ ~peerOpen /\ NextFrame > arrived
    /\ readerPc' = "exited"
    /\ is_running' = FALSE
    /\ readFailed' = IF _stop_event THEN "stopping" ELSE "alone"
    /\ UNCHANGED <<_stop_event, _sock, _on_image, _poll_stacked,
                   heartbeatPc, tick, stopPc, arrived, inHand, peerOpen,
                   readOff, delivered, cbFinished, sent, showPc, userCalled,
                   raisedAt, stopHist, afterStop, waits>>

\* lines 602-604: the callback, if there is one, is invoked with the frame
\* in hand.  The wrapper of lines 789-792 first runs _display_callback;
\* when that raises, or when there is no user_cb, the invocation is over at
\* once; otherwise the user's code runs (readerPc = "callback").
ReaderInvoke ==
    LET f == readOff[Len(readOff)]
        invoked == ReaderAfterFrame(_on_image, _stop_event) = "callback"
        shown == invoked /\ _on_image \in WithDisplay
        displayRaises == shown /\ DisplayCallbackRaises(inHand)
        userRuns == invoked /\ _on_image \in HasUserCb /\ ~displayRaises
    IN  /\ readerPc = "have_frame"
        /\ delivered' = IF invoked THEN Append(delivered, f) ELSE delivered
        /\ inHand' = "none"
        /\ userCalled' = IF userRuns THEN Append(userCalled, f) ELSE userCalled
        /\ readerPc' = IF userRuns THEN "callback"
                       ELSE IF invoked THEN AfterCallback(displayRaises)
                       ELSE "check"
        /\ cbFinished' = IF invoked /\ ~userRuns THEN cbFinished + 1
                         ELSE cbFinished
        /\ raisedAt' = IF displayRaises /\ raisedAt = 0 THEN f ELSE raisedAt
        /\ afterStop' = IF invoked /\ _stop_event THEN afterStop + 1
                        ELSE afterStop
        /\ is_running' = IF readerPc' = "exited" THEN FALSE ELSE is_running
        /\ UNCHANGED <<_stop_event, _sock, _on_image, _poll_stacked,
                       heartbeatPc, tick, stopPc, arrived, peerOpen,
                       readOff, sent, showPc, stopHist, readFailed, waits>>

\* lines 604-606: the user's code returns, or raises and the error is
\* printed
ReaderCallbackEnds(raises) ==
    /\ readerPc = "callback"
    /\ stopPc["reader"] = "idle"
    /\ readerPc' = AfterCallback(raises)
    /\ is_running' = IF readerPc' = "exited" THEN FALSE ELSE is_running
    /\ cbFinished' = cbFinished + 1
    /\ raisedAt' = IF raises /\ raisedAt = 0 THEN Len(readOff) ELSE raisedAt
    /\ UNCHANGED <<_stop_event, _sock, _on_image, _poll_stacked,
                   heartbeatPc, tick, stopPc, arrived, inHand, peerOpen,
                   readOff, delivered, sent, showPc, userCalled,
                   stopHist, readFailed, afterStop, waits>>

\* line 583: the wait times out with the event clear
HeartbeatWake ==
    /\ heartbeatPc = "waiting"
    /\ ~_stop_event
    /\ tick < MaxTicks
    /\ heartbeatPc' = "sending"
    /\ waits' = waits + 1
    /\ UNCHANGED <<is_running, _stop_event, _sock, _on_image, _poll_stacked,
                   readerPc, tick, stopPc, arrived, inHand, peerOpen,
                   readOff, delivered, cbFinished, sent, showPc, userCalled,
                   raisedAt, stopHist, readFailed, afterStop>>

\* lines 584-591: the message is sent and the tick counted, or sendall
\* raises OSError and the loop breaks
HeartbeatSend(fails) ==
    /\ heartbeatPc = "sending"
    /\ SendMayBe(fails)
    /\ IF fails
         THEN heartbeatPc' = "exited" /\ UNCHANGED <<tick, sent>>
         ELSE /\ heartbeatPc' = "waiting"
              /\ tick' = tick + 1
              /\ sent' = Append(sent, HeartbeatMessage)
    /\ UNCHANGED <<is_running, _stop_event, _sock, _on_image, _poll_stacked,
                   readerPc, stopPc, arrived, inHand, peerOpen,
                   readOff, delivered, cbFinished, showPc, userCalled,
                   raisedAt, stopHist, readFailed, afterStop, waits>>

\* line 583: the wait returns True, the event is set
HeartbeatExit ==
    /\ heartbeatPc = "waiting"
    /\ _stop_event
    /\ heartbeatPc' = "exited"
    /\ UNCHANGED <<is_running, _stop_event, _sock, _on_image, _poll_stacked,
                   readerPc, tick, stopPc, arrived, inHand, peerOpen,
                   readOff, delivered, cbFinished, sent, showPc, userCalled,
                   raisedAt, stopHist, readFailed, afterStop, waits>>

\* show(), lines 657-661, called by start_stream at line 800 when
\* with_matplotlib is set: polling is switched on and get_stacked_img sent,
\* an OSError passed over
ShowBegin(fails) ==
    /\ showPc = "not_shown"
    /\ _on_image \in WithDisplay
    /\ stopPc["main"] = "idle"
    /\ SendMayBe(fails)
    /\ _poll_stacked' = TRUE
    /\ sent' = IF fails THEN sent ELSE Append(sent, "get_stacked_img")
    /\ showPc' = "showing"
    /\ UNCHANGED <<is_running, _stop_event, _sock, _on_image,
                   readerPc, heartbeatPc, tick, stopPc, arrived, inHand,
                   peerOpen, readOff, delivered, cbFinished, userCalled,
                   raisedAt, stopHist, readFailed, afterStop, waits>>

\* whether thread c is where it can call stop(): the main thread outside
\* show(), once start_stream has returned the session; the reader thread
\* inside the user's callback
CanCallStop(c) ==
    /\ stopPc[c] = "idle"
    /\ c = "main" => /\ showPc # "showing"
                     /\ _on_image \in WithDisplay => showPc = "shown"
    /\ c = "reader" => readerPc = "callback"

\* stop(), lines 709-711, entered by thread c: the guard returns, or the
\* event is set
StopEnter(c) ==
    IF StopGuard(is_running, _stop_event)
    THEN /\ stopHist' = [stopHist EXCEPT !.noops = TRUE]
         /\ UNCHANGED <<_stop_event, stopPc>>
    ELSE /\ _stop_event' = TRUE
         /\ stopPc' = [stopPc EXCEPT ![c] = "send"]
         /\ UNCHANGED stopHist

StopBegin(c) ==
    /\ CanCallStop(c)
    /\ StopEnter(c)
    /\ UNCHANGED <<is_running, _sock, _on_image, _poll_stacked,
                   readerPc, heartbeatPc, tick, arrived, inHand, peerOpen,
                   readOff, delivered, cbFinished, sent, showPc, userCalled,
                   raisedAt, readFailed, afterStop, waits>>

\* show(), lines 686-689: the window is closed; polling is switched off
\* and stop() entered
ShowEnd ==
    /\ showPc = "showing"
    /\ _poll_stacked' = FALSE
    /\ showPc' = "shown"
    /\ StopEnter("main")
    /\ UNCHANGED <<is_running, _sock, _on_image,
                   readerPc, heartbeatPc, tick, arrived, inHand, peerOpen,
                   readOff, delivered, cbFinished, sent, userCalled,
                   raisedAt, readFailed, afterStop, waits>>

\* stop(), lines 712-715: stop_streaming is sent, an OSError passed over
StopSend(c, fails) ==
    /\ stopPc[c] = "send"
    /\ SendMayBe(fails)
    /\ sent' = IF fails THEN sent ELSE Append(sent, "stop_streaming")
    /\ stopPc' = [stopPc EXCEPT ![c] = "close"]
    /\ UNCHANGED <<is_running, _stop_event, _sock, _on_image, _poll_stacked,
                   readerPc, heartbeatPc, tick, arrived, inHand, peerOpen,
                   readOff, delivered, cbFinished, showPc, userCalled,
                   raisedAt, stopHist, readFailed, afterStop, waits>>

\* stop(), lines 716-719: the socket is closed
StopClose(c) ==
    /\ stopPc[c] = "close"
    /\ _sock' = "closed"
    /\ stopPc' = [stopPc EXCEPT ![c] = "join_reader"]
    /\ UNCHANGED <<is_running, _stop_event, _on_image, _poll_stacked,
                   readerPc, heartbeatPc, tick, arrived, inHand, peerOpen,
                   readOff, delivered, cbFinished, sent, showPc, userCalled,
                   raisedAt, stopHist, readFailed, afterStop, waits>>

\* stop(), lines 720-721, on the main thread: join(timeout=5) returns when
\* the reader has exited, or times out on a reader blocked in recv() or
\* inside the user's callback
StopJoinReader ==
    /\ stopPc["main"] = "join_reader"
    /\ readerPc \in {"exited", "reading", "callback"}
    /\ stopPc' = [stopPc EXCEPT !["main"] = "join_heartbeat"]
    /\ UNCHANGED <<is_running, _stop_event, _sock, _on_image, _poll_stacked,
                   readerPc, heartbeatPc, tick, arrived, inHand, peerOpen,
                   readOff, delivered, cbFinished, sent, showPc, userCalled,
                   raisedAt, stopHist, readFailed, afterStop, waits>>

\* stop(), lines 720-721, on the reader thread: Thread.join raises
\* RuntimeError("cannot join current thread"); it leaves stop() and the
\* user's callback and is printed at line 606
StopJoinSelf ==
    /\ stopPc["reader"] = "join_reader"
    /\ readerPc = "callback"
    /\ stopPc' = [stopPc EXCEPT !["reader"] = "idle"]
    /\ stopHist' = [stopHist EXCEPT !.raised = TRUE]
    /\ readerPc' = AfterCallback(TRUE)
    /\ is_running' = IF readerPc' = "exited" THEN FALSE ELSE is_running
    /\ cbFinished' = cbFinished + 1
    /\ raisedAt' = IF raisedAt = 0 THEN Len(readOff) ELSE raisedAt
    /\ UNCHANGED <<_stop_event, _sock, _on_image, _poll_stacked,
                   heartbeatPc, tick, arrived, inHand, peerOpen,
                   readOff, delivered, sent, showPc, userCalled,
                   readFailed, afterStop, waits>>

\* stop(), lines 722-724, on the main thread: the heartbeat thread, woken
\* by the event or stopped by the closed socket, has exited
StopJoinHeartbeat ==
    /\ stopPc["main"] = "join_heartbeat"
    /\ heartbeatPc = "exited"
    /\ is_running' = FALSE
    /\ stopPc' = [stopPc EXCEPT !["main"] = "idle"]
    /\ stopHist' = [stopHist EXCEPT
                      !.returned = TRUE,
                      !.readerAlive = @ \/ readerPc # "exited"]
    /\ UNCHANGED <<_stop_event, _sock, _on_image, _poll_stacked,
                   readerPc, heartbeatPc, tick, arrived, inHand, peerOpen,
                   readOff, delivered, cbFinished, sent, showPc, userCalled,
                   raisedAt, readFailed, afterStop, waits>>

\* the sessions start_stream() can make: on_image given or not,
\* with_matplotlib set or not
StreamInit ==
    /\ ListenerInit
    /\ StoreEmpty
    /\ feed = << >>
    /\ SessionStarted
    /\ _on_image \in {"none", "user"} \cup WithDisplay
    /\ NoHeader
    /\ NoWire
    /\ NoDecode
    /\ NoBeat
    /\ NoLive

StreamNext ==
    /\ \/ FrameArrives
       \/ PeerCloses
       \/ ReaderCheck
       \/ \E kind \in FrameKinds : ReaderReadFrame(kind)
       \/ ReaderReadFails
       \/ ReaderInvoke
       \/ \E raises \in BOOLEAN : ReaderCallbackEnds(raises)
       \/ HeartbeatWake
       \/ \E fails \in BOOLEAN : HeartbeatSend(fails)
       \/ HeartbeatExit
       \/ \E fails \in BOOLEAN : ShowBegin(fails)
       \/ ShowEnd
       \/ \E c \in Callers : StopBegin(c)
       \/ \E c \in Callers, fails \in BOOLEAN : StopSend(c, fails)
       \/ \E c \in Callers : StopClose(c)
       \/ StopJoinReader
       \/ StopJoinSelf
       \/ StopJoinHeartbeat
    /\ UNCHANGED <<listenerVars, evSet, pending, callerPc, threadVars,
                   storeVars, feed, headerVars, wireVars,
                   decodeVars, beatVars, liveVars>>

StreamSpec == StreamInit /\ [][StreamNext]_vars

(***************************************************************************)
(* Claims about the streaming reader                                       *)
(***************************************************************************)

\* s is an initial segment of t
IsPrefix(s, t) ==
    /\ Len(s) <= Len(t)
    /\ \A i \in 1..Len(s) : s[i] = t[i]

C11_FrameFailureKeepsReader ==
    /\ readerPc = "exited" => (_stop_event \/ readFailed # "no")
    /\ raisedAt # 0 => (is_running \/ _stop_event \/ readFailed # "no")

\* the invocation for the first frame raised, no stop was asked for, and a
\* later frame has been read, delivered and handled since
C11_Witness ==
    /\ raisedAt = 1
    /\ ~_stop_event
    /\ is_running
    /\ Len(delivered) >= 2
    /\ cbFinished >= 2
    /\ readerPc = "reading"

\* C12: every call of stop() goes through its steps in order (the event is
\* set before stop_streaming is sent, the socket is closed before the
\* threads are waited for), no failure of a step is raised, and the call
\* returns
C12_StopStepsInOrderAndReturns ==
    /\ \A c \in Callers :
          /\ stopPc[c] # "idle" => _stop_event
          /\ stopPc[c] \in {"join_reader", "join_heartbeat"} => _sock = "closed"
    /\ (\E i \in 1..Len(sent) : sent[i] = "stop_streaming") => _stop_event
    /\ stopHist.raised = FALSE

\* what a call of stop() that returns at line 710 leaves alone
StopTouches == <<is_running, _stop_event, _sock, stopPc, sent, readerPc,
                 heartbeatPc, tick, _poll_stacked>>

\* a step that sends stop_streaming
SendsStopStreaming ==
    /\ Len(sent') = Len(sent) + 1
    /\ sent'[Len(sent')] = "stop_streaming"

C14_StopInsideCallbackCompletes ==
    [][stopPc["reader"] = "join_reader"
          => (~stopHist'.raised /\ stopPc'["reader"] # "idle")]_vars

\* C15: when stop() returns, the reader thread and the heartbeat thread of
\* the session have ended
C15_StopReturnsAfterBothEnded ==
    [][(stopPc["main"] = "join_heartbeat" /\ stopPc'["main"] = "idle")
          => (readerPc' = "exited" /\ heartbeatPc' = "exited")]_vars

\* C16: is_running never goes from False back to True, and the heartbeat
\* thread sends nothing on the session socket while it is False
C16_NoHeartbeatWhenNotRunning ==
    /\ [][~is_running => ~is_running']_vars
    /\ [][tick' # tick => is_running]_vars

\* C17: with the display wrapper around a user callback, the user callback
\* has been invoked with every frame the reader read, but for the one it
\* has just read
C17_UserCallbackSeesEveryFrame ==
    _on_image = "display_user" =>
        /\ IsPrefix(userCalled, readOff)
        /\ readerPc # "have_frame" => userCalled = readOff

(***************************************************************************)
(* stream.py: parse_header, applied to buffers of bytes.  A buffer is a    *)
(* sequence of bytes; the byte at offset k of the code is buf[k + 1].      *)
(***************************************************************************)

\* the values given to the bytes of a buffer
ByteVals == {0, 1, 3, 195, 255}

\* struct.unpack_from('>H', b, off)[0] read with the low byte first
UnpackHLittleEndian(b, off) == b[off + 2] * 256 + b[off + 1]

\* struct.unpack_from('>H', b, off)[0]
UnpackH(b, off) == b[off + 1] * 256 + b[off + 2]

\* an unpacking of the four bytes that start two bytes before the offset
UnpackIBeforeOffset(b, off) ==
    <<b[off - 1] * 256 + b[off], b[off + 1] * 256 + b[off + 2]>>

\* struct.unpack_from('>I', b, off)[0], an integer below 2^32, written as
\* the pair <<h, l>> of its digits in base 2^16: its value is h * 2^16 + l
UnpackI(b, off) ==
    <<b[off + 1] * 256 + b[off + 2], b[off + 3] * 256 + b[off + 4]>>

\* a parse_header that takes a buffer of any length >= HEADER_SIZE
HeaderLengthAtLeast(b) == Len(b) >= HEADER_SIZE

\* line 350: len(buf) != HEADER_SIZE is an error
HeaderLengthOk(b) == Len(b) = HEADER_SIZE

\* parse_header(buf), lines 350-382: the dict returned, or the ValueError
\* of line 351.  The magic is unpacked like every field and not compared
\* with MAGIC_NUMBER.
parse_header(b) ==
    IF ~HeaderLengthOk(b)
    THEN [error |-> "ValueError"]
    ELSE [magic |-> UnpackH(b, 0),
          version |-> UnpackH(b, 2),
          length |-> UnpackI(b, 6),
          is_big_endian |-> b[12 + 1],
          img_type |-> b[13 + 1],
          data_type |-> b[14 + 1],
          frame_id |-> b[15 + 1],
          width |-> UnpackH(b, 16),
          height |-> UnpackH(b, 18),
          hfd_x |-> UnpackH(b, 20),
          hfd_y |-> UnpackH(b, 22),
          hfd |-> UnpackH(b, 24),
          can_debayer |-> UnpackH(b, 26),
          image_id |-> UnpackH(b, 28)]

\* the buffers to start from: every length about HEADER_SIZE, the magic
\* in front when there is room, the other bytes all 0 or all 1
HeaderBuffers ==
    { [i \in 1..n |-> IF i = 1 THEN 3 ELSE IF i = 2 THEN 195 ELSE f] :
        n \in (HEADER_SIZE - MaxLenDelta)..(HEADER_SIZE + MaxLenDelta),
        f \in {0, 1} }

\* the values of the fields of one header, in the order of the layout and
\* without the bytes between them: magic 03C3, version 0001, 0000, the low
\* half 0800 of the length, flags 00 05 03 00, width 0002, height 0002,
\* four times 0000, image id 0001
ExampleFieldBytes ==
    <<3, 195, 0, 1, 0, 0, 8, 0, 0, 5, 3, 0, 0, 2, 0, 2,
      0, 0, 0, 0, 0, 0, 0, 0, 0, 1>>

\* the same header as parse_header is given it, HEADER_SIZE bytes: the
\* length in four bytes at offset 6 and zeros at offsets 4-5, 10-11, 30-33
ExampleHeader ==
    <<3, 195, 0, 1, 0, 0, 0, 0, 8, 0, 0, 0, 0, 5, 3, 0, 0, 2, 0, 2,
      0, 0, 0, 0, 0, 0, 0, 0, 0, 1, 0, 0, 0, 0>>

HeaderInit ==
    /\ ListenerInit
    /\ StoreEmpty
    /\ feed = << >>
    /\ SessionStarted
    /\ _on_image = "none"
    /\ buf \in HeaderBuffers \cup {ExampleFieldBytes, ExampleHeader}
    /\ NoWire
    /\ NoDecode
    /\ NoBeat
    /\ NoLive
    /\ edits = 0
    /\ parsed = NotParsed

\* the caller's buffer has another value at one offset
SetByte(i, v) ==
    /\ parsed = NotParsed
    /\ edits < MaxEdits
    /\ i \in 1..Len(buf)
    /\ buf[i] # v
    /\ buf' = [buf EXCEPT ![i] = v]
    /\ edits' = edits + 1
    /\ UNCHANGED parsed

\* parse_header(buf) is called
ParseHeader ==
    /\ parsed = NotParsed
    /\ parsed' = parse_header(buf)
    /\ UNCHANGED <<buf, edits>>

HeaderNext ==
    /\ \/ \E i \in 1..(HEADER_SIZE + MaxLenDelta), v \in ByteVals : SetByte(i, v)
       \/ ParseHeader
    /\ UNCHANGED <<listenerVars, evSet, pending, callerPc, threadVars,
                   storeVars, feed, sessionVars, wireVars,
                   decodeVars, beatVars, liveVars>>

HeaderSpec == HeaderInit /\ [][HeaderNext]_vars

(***************************************************************************)
(* Claims about parse_header                                               *)
(***************************************************************************)

\* the big-endian unsigned integer in the w bytes of b from offset off
RECURSIVE BigEndian(_, _, _)
BigEndian(b, off, w) ==
    IF w = 0 THEN 0
    ELSE BigEndian(b, off, w - 1) * 256 + b[off + w]

\* the big-endian unsigned integer of width w at offset off, one of four
\* bytes written in base 2^16 like UnpackI
FieldValue(b, off, w) ==
    IF w = 4
    THEN <<BigEndian(b, off, 2), BigEndian(b, off + 2, 2)>>
    ELSE BigEndian(b, off, w)

\* the documented layout: field, offset, width
HeaderLayout ==
    { <<"version", 2, 2>>, <<"length", 6, 4>>, <<"is_big_endian", 12, 1>>,
      <<"img_type", 13, 1>>, <<"data_type", 14, 1>>, <<"frame_id", 15, 1>>,
      <<"width", 16, 2>>, <<"height", 18, 2>>, <<"hfd_x", 20, 2>>,
      <<"hfd_y", 22, 2>>, <<"hfd", 24, 2>>, <<"can_debayer", 26, 2>>,
      <<"image_id", 28, 2>> }

\* the offsets the layout does not use
ReservedOffsets == {4, 5, 30, 31, 32, 33}

HasMagic(b) == Len(b) >= 2 /\ b[1] = 3 /\ b[2] = 195

IsError(r) == "error" \in DOMAIN r

\* C18: for a buffer of HEADER_SIZE bytes that starts with 03 C3,
\* parse_header returns every field equal to the big-endian unsigned
\* integer at its documented offset and width, and no value of a byte at
\* offsets 4-5 and 30-33 changes any field
C18_FieldsAtDocumentedOffsets ==
    (parsed # NotParsed /\ Len(buf) = HEADER_SIZE /\ HasMagic(buf)) =>
        /\ ~IsError(parsed)
        /\ \A l \in HeaderLayout : parsed[l[1]] = FieldValue(buf, l[2], l[3])
        /\ \A k \in ReservedOffsets, v \in ByteVals :
              parse_header([buf EXCEPT ![k + 1] = v]) = parsed

\* a header was parsed whose width has different high and low bytes and
\* whose length has a byte set in its upper half
C18_Witness ==
    /\ parsed # NotParsed
    /\ Len(buf) = HEADER_SIZE
    /\ HasMagic(buf)
    /\ buf[17] = 1
    /\ buf[18] = 255
    /\ buf[8] = 195

\* C19: parse_header fails for every buffer whose length is not
\* HEADER_SIZE, whatever its bytes
C19_WrongLengthFails ==
    (parsed # NotParsed /\ Len(buf) # HEADER_SIZE) =>
        (IsError(parsed) /\ parsed.error = "ValueError")

\* a buffer one byte longer than a header, with its magic in place and two
\* bytes set, was given to parse_header
C19_Witness ==
    /\ parsed # NotParsed
    /\ Len(buf) = HEADER_SIZE + 1
    /\ HasMagic(buf)
    /\ edits = MaxEdits

\* C20: parse_header fails for every buffer of HEADER_SIZE bytes whose
\* first two bytes are not 03 C3, and returns no header whose magic is not
\* MAGIC_NUMBER
C20_WrongMagicFails ==
    parsed # NotParsed =>
        /\ (Len(buf) = HEADER_SIZE /\ ~HasMagic(buf)) => IsError(parsed)
        /\ ~IsError(parsed) => parsed.magic = MAGIC_NUMBER

\* the fields the example names, as parse_header returns them
ExampleFields(r) ==
    /\ ~IsError(r)
    /\ r.magic = MAGIC_NUMBER
    /\ r.width = 2
    /\ r.height = 2
    /\ r.img_type = 5
    /\ r.image_id = 1
    /\ r.length = <<0, 2048>>

\* C21 as stated: parse_header applied to the byte string of the example as
\* it is written returns magic 0x03C3, width 2, height 2, img_type 5,
\* image_id 1 and length 0x800
C21_ExampleAsWritten ==
    (parsed # NotParsed /\ buf = ExampleFieldBytes) => ExampleFields(parsed)

\* C21, amended: parse_header applied to the example with its bytes at
\* their offsets (HEADER_SIZE bytes) returns magic 0x03C3, width 2, height
\* 2, img_type 5, image_id 1 and length 0x800; applied to the byte string
\* as written, which is shorter, it fails
C21_ExampleHeaderParses ==
    parsed # NotParsed =>
        /\ buf = ExampleHeader => ExampleFields(parsed)
        /\ buf = ExampleFieldBytes => IsError(parsed)

\* parse_header was applied to the example header
C21_Witness ==
    /\ parsed # NotParsed
    /\ buf = ExampleHeader
    /\ edits = 0

(***************************************************************************)
(* Claims about the tagging of listener messages                           *)
(***************************************************************************)

\* the tag a message is to be stored under: its explicit event tag, or
\* else the method name of a response, or else none
TagOf(ln) ==
    IF Truthy(ln.Event) THEN ln.Event
    ELSE IF ln.hasResult /\ ln.method # "none" THEN ln.method
    ELSE "none"

\* C30: a message with a result and no event tag is stored under its
\* method name, a message with an explicit event tag is stored under that
\* tag, also when it has a result and a method, and a message with neither
\* is not stored
C30_StoredUnderItsTag ==
    [][\A t \in Threads : \A ln \in {l \in Lines : l.kind = "object"} :
        RunReadLine(t, ln) =>
            IF TagOf(ln) = "none"
            THEN UNCHANGED <<LATEST_STATE, LATEST_LOGS>>
            ELSE /\ DOMAIN LATEST_STATE' = DOMAIN LATEST_STATE \cup {TagOf(ln)}
                 /\ LATEST_STATE'[TagOf(ln)].body = ln.body
                 /\ LATEST_LOGS'[Len(LATEST_LOGS')].Event = TagOf(ln)]_vars

\* ---------------------------------------------------------------------
\* stream.py: _recv_exact, _consume_json_line and _read_frame, on the byte
\* stream a socket delivers before the device closes it
\* ---------------------------------------------------------------------

RECURSIVE Flatten(_)
\* the bytes of a sequence of pieces, one after the other
Flatten(its) ==
    IF its = << >> THEN << >> ELSE Head(its).bytes \o Flatten(Tail(its))

\* the bytes the socket delivers before it is closed
Wire == Flatten(items)

\* a 34-byte header as the device sends it: magic, then the payload length
\* at offset 6, the frame id at 15, the width at 16 and the height at 18
MakeHeader(len, w, h) ==
    <<3, 195, 0, 1, 0, 0>> \o <<0, 0, len \div 256, len % 256>>
    \o <<0, 0, 0, 1, 2, 0>> \o <<0, w, 0, h>>
    \o <<0, 0, 0, 0, 0, 0, 0, 0>> \o <<0, 1>> \o <<0, 0, 0, 0>>

Piece(k, b) == [kind |-> k, bytes |-> b]

\* what the device may put on the socket: control lines of JSON text ended
\* by \r\n (one of them with the bytes 03 C3 inside), a byte of zero
\* padding, stray bytes, whole frames (one with 03 C3 in its payload, one
\* with no payload), and a frame or a header the stream ends in the middle of
Pieces ==
    { Piece("json", <<123, 125, 13, 10>>),
      Piece("json", <<123, 3, 195, 125, 13, 10>>),
      Piece("pad", <<0>>),
      Piece("stray", <<3>>),
      Piece("stray", <<7>>),
      Piece("frame", MakeHeader(2, 1, 1) \o <<65, 66>>),
      Piece("frame", MakeHeader(2, 1, 1) \o <<3, 195>>),
      Piece("frame", MakeHeader(0, 0, 0)),
      Piece("cut", MakeHeader(2, 1, 1) \o <<65>>),
      Piece("cut", SubSeq(MakeHeader(2, 1, 1), 1, 10)) }

\* one recv(n) without the loop around it: the bytes that are there, up to
\* n, and ConnectionError only when there is none
RecvOnce(st, p, n) ==
    LET e == IF p + n <= Len(st) THEN p + n ELSE Len(st)
    IN  IF n > 0 /\ e = p
        THEN [ok |-> FALSE, bytes |-> << >>, pos |-> Len(st)]
        ELSE [ok |-> TRUE, bytes |-> SubSeq(st, p + 1, e), pos |-> e]

\* _recv_exact(sock, n) with p bytes of the stream st received already: the
\* n bytes, or ConnectionError when the stream ends before them
RecvExact(st, p, n) ==
    IF p + n <= Len(st)
    THEN [ok |-> TRUE, bytes |-> SubSeq(st, p + 1, p + n), pos |-> p + n]
    ELSE [ok |-> FALSE, bytes |-> << >>, pos |-> Len(st)]

\* the test "first[0] == ord('{')" never true
StartsJsonNever(b) == FALSE

\* _read_frame: the byte that starts a line of JSON
StartsJson(b) == b = 123

RECURSIVE ConsumeJsonLine(_, _, _)
\* _consume_json_line with the bytes st[start+1 .. p] in buf: reads byte by
\* byte until buf ends with \r\n or is longer than the limit; gives the
\* position after the line, or -1 for ConnectionError
ConsumeJsonLine(st, start, p) ==
    IF p - start >= 2 /\ st[p - 1] = 13 /\ st[p] = 10 THEN p
    ELSE LET r == RecvExact(st, p, 1)
         IN  IF ~r.ok THEN -1
             ELSE IF r.pos - start > JSON_LINE_LIMIT THEN r.pos
             ELSE ConsumeJsonLine(st, start, r.pos)

RECURSIVE ScanForMagic(_, _)
\* the loop of _read_frame: the position after the bytes 03 C3 it stops at,
\* or -1 for ConnectionError
ScanForMagic(st, p) ==
    LET first == RecvExact(st, p, 1)
    IN  IF ~first.ok THEN -1
        ELSE IF first.bytes[1] = 3
        THEN LET second == RecvExact(st, first.pos, 1)
             IN  IF ~second.ok THEN -1
                 ELSE IF second.bytes[1] = 195 THEN second.pos
                 ELSE ScanForMagic(st, second.pos)
        ELSE IF StartsJson(first.bytes[1])
        THEN LET q == ConsumeJsonLine(st, p, first.pos)
             IN  IF q = -1 THEN -1 ELSE ScanForMagic(st, q)
        ELSE ScanForMagic(st, first.pos)

ConnectionError(p) ==
    [raised |-> "ConnectionError", header |-> NotParsed, payload |-> << >>,
     pos |-> p]

\* the number a length field stands for, when it fits in 16 bits; a longer
\* payload than any stream here holds otherwise
LengthOf(pair) == IF pair[1] = 0 THEN pair[2] ELSE 65536

\* _read_frame(sock) with p bytes of the stream st received already: the
\* header and the payload, or the exception that leaves it
ReadFrame(st, p) ==
    LET m == ScanForMagic(st, p)
    IN  IF m = -1 THEN ConnectionError(Len(st))
        ELSE LET rest == RecvExact(st, m, HEADER_SIZE - 2)
             IN  IF ~rest.ok THEN ConnectionError(Len(st))
                 ELSE LET header == parse_header(<<3, 195>> \o rest.bytes)
                      IN  IF "error" \in DOMAIN header
                          THEN [raised |-> header.error, header |-> NotParsed,
                                payload |-> << >>, pos |-> rest.pos]
                          ELSE LET payload ==
                                       RecvExact(st, rest.pos,
                                                 LengthOf(header.length))
                               IN  IF ~payload.ok
                                   THEN ConnectionError(Len(st))
                                   ELSE [raised |-> "none",
                                         header |-> header,
                                         payload |-> payload.bytes,
                                         pos |-> payload.pos]

\* the socket has not raised ConnectionError yet
WireOpen ==
    IF frames = << >> THEN TRUE ELSE frames[Len(frames)].raised = "none"

\* one call of _read_frame
ReadFrameCall ==
    /\ items # << >>
    /\ WireOpen
    /\ LET r == ReadFrame(Wire, rpos)
       IN  /\ frames' = Append(frames, r)
           /\ rpos' = r.pos
    /\ UNCHANGED <<items, listenerVars, evSet, pending, callerPc, threadVars,
                   storeVars, feed, sessionVars, headerVars, decodeVars,
                   beatVars, liveVars>>

WireInit ==
    /\ ListenerInit
    /\ StoreEmpty
    /\ feed = << >>
    /\ SessionStarted
    /\ _on_image = "none"
    /\ NoHeader
    /\ items \in UNION {[1..n -> Pieces] : n \in 1..MaxItems}
    /\ rpos = 0
    /\ frames = << >>
    /\ NoDecode
    /\ NoBeat
    /\ NoLive

WireNext == ReadFrameCall

WireSpec == WireInit /\ [][WireNext]_vars

\* ---------------------------------------------------------------------
\* stream.py: decode_payload and _decompress_payload
\* ---------------------------------------------------------------------

\* _ZIP_LOCAL_SIG, b'PK\x03\x04'
ZipLocalSig == <<80, 75, 3, 4>>

\* n bytes of value f
Fill(n, f) == [i \in 1..n |-> f]

\* bytes.find(_ZIP_LOCAL_SIG): the number of bytes before the first place
\* the signature stands at, -1 when it stands nowhere
FindSig(b) ==
    LET at == {k \in 0..(Len(b) - 4) : SubSeq(b, k + 1, k + 4) = ZipLocalSig}
    IN  IF at = {} THEN -1 ELSE CHOOSE k \in at : \A j \in at : k <= j

\* struct.unpack_from('<H', b, off) fits in the buffer
UnpackFits(b, off) == off + 2 <= Len(b)

\* struct.unpack_from('<H', b, off)[0]
UnpackLE16(b, off) == b[off + 1] + 256 * b[off + 2]

RECURSIVE InflateFrom(_, _, _)
\* zlib.decompress(st, -15) from the block that begins after p bytes, with
\* out decompressed already.  Stored blocks are decoded as DEFLATE defines
\* them (BFINAL in bit 0 of the first byte, BTYPE 00 in bits 1-2, LEN and
\* its complement NLEN as little-endian 16-bit numbers, LEN bytes of
\* data); block type 11 is invalid; a stream that ends before its final
\* block is complete is an error; bytes after the final block are ignored.
\* Huffman blocks (types 01 and 10) are not decoded.
InflateFrom(st, p, out) ==
    IF p >= Len(st) THEN [raised |-> "zlib.error"]
    ELSE LET btype == (st[p + 1] \div 2) % 4
             bfinal == st[p + 1] % 2
         IN  IF btype = 3 THEN [raised |-> "zlib.error"]
             ELSE IF btype # 0 THEN [raised |-> "huffman"]
             ELSE IF p + 5 > Len(st) THEN [raised |-> "zlib.error"]
             ELSE LET len == UnpackLE16(st, p + 1)
                      nlen == UnpackLE16(st, p + 3)
                  IN  IF len + nlen # 65535 THEN [raised |-> "zlib.error"]
                      ELSE IF p + 5 + len > Len(st)
                      THEN [raised |-> "zlib.error"]
                      ELSE LET o == out \o SubSeq(st, p + 6, p + 5 + len)
                           IN  IF bfinal = 1
                               THEN [raised |-> "none", bytes |-> o]
                               ELSE InflateFrom(st, p + 5 + len, o)

\* zlib.decompress(st, -15)
Inflate(st) == InflateFrom(st, 0, << >>)

\* the start of the compressed data taken without the extra field
DataStartWithoutExtra(pk, fname_len, extra_len) == pk + 30 + fname_len

\* _decompress_payload, line 308: data_start
DataStart(pk, fname_len, extra_len) == pk + 30 + fname_len + extra_len

\* _decompress_payload(payload): the decompressed bytes, or the exception
\* that leaves it
_decompress_payload(payload) ==
    LET pk == FindSig(payload)
    IN  IF pk = -1 THEN [raised |-> "ValueError", why |-> "no signature"]
        ELSE IF ~UnpackFits(payload, pk + 26)
        THEN [raised |-> "struct.error"]
        ELSE IF ~UnpackFits(payload, pk + 28)
        THEN [raised |-> "struct.error"]
        ELSE LET fname_len == UnpackLE16(payload, pk + 26)
                 extra_len == UnpackLE16(payload, pk + 28)
                 data_start == DataStart(pk, fname_len, extra_len)
             IN  Inflate(SubSeq(payload, data_start + 1, Len(payload)))

\* the test for an empty frame true only when both dimensions are 0
ZeroDimsBoth(w, h) == w = 0 /\ h = 0

\* decode_payload, line 147: w == 0 or h == 0
ZeroDims(w, h) == w = 0 \/ h = 0

\* decode_payload, line 163: len(payload) == expected_bayer
BayerSizeOk(n, expected_bayer) == n = expected_bayer

\* np.frombuffer(b, dtype=np.uint16).reshape(shape): a view of the bytes
NdArray(shape, b) ==
    [raised |-> "none", shape |-> shape, buffer |-> b]

\* decode_payload(payload, header): the array, or the exception that
\* leaves it
decode_payload(payload, header) ==
    LET w == header.width
        h == header.height
    IN  IF ZeroDims(w, h)
        THEN [raised |-> "ValueError", why |-> "zero dimension"]
        ELSE IF FindSig(payload) # -1
        THEN LET raw == _decompress_payload(payload)
             IN  IF raw.raised # "none" THEN raw
                 ELSE IF Len(raw.bytes) # h * w * 3 * 2
                 THEN [raised |-> "ValueError", why |-> "size"]
                 ELSE NdArray(<<h, w, 3>>, raw.bytes)
        ELSE IF BayerSizeOk(Len(payload), h * w * 2)
        THEN NdArray(<<h, w>>, payload)
        ELSE [raised |-> "ValueError", why |-> "format"]

\* raw deflate of data as one stored block, or as a stored block that is
\* not the last followed by the rest in a last one
StoredBlock(final, data) ==
    <<final, Len(data) % 256, Len(data) \div 256,
      255 - (Len(data) % 256), 255 - (Len(data) \div 256)>> \o data

Deflate(data, blocks) ==
    IF blocks = 1 \/ Len(data) < 2 THEN StoredBlock(1, data)
    ELSE StoredBlock(0, SubSeq(data, 1, 1))
         \o StoredBlock(1, SubSeq(data, 2, Len(data)))

\* the 30 fixed bytes of a local file entry, then its file name and its
\* extra field
LocalEntry(fname_len, extra_len) ==
    ZipLocalSig \o Fill(22, 0)
    \o <<fname_len % 256, fname_len \div 256>>
    \o <<extra_len % 256, extra_len \div 256>>
    \o Fill(fname_len, 97) \o Fill(extra_len, 0)

\* the payload of a stacked frame: padding, local entry, deflated pixels
ZipPayload(b) ==
    Fill(b.pad, 0) \o LocalEntry(b.fname_len, b.extra_len)
    \o Deflate(b.pixels, b.blocks)

\* sample bytes of n pixels' worth: all one value, or the archive
\* signature in front of them
SampleBytes(n) ==
    {Fill(n, f) : f \in {0, 7, 255}}
    \cup (IF n >= 4
          THEN {ZipLocalSig \o Fill(n - 4, f) : f \in {0, 7}}
          ELSE {})

\* how a payload for a w x h image may be put together: raw bytes of the
\* Bayer size, of the RGB size, one byte more than the Bayer size, four or
\* none at all; or an archive entry holding pixels of the RGB size or one
\* byte more
Builds(w, h) ==
    { [kind |-> "raw", bytes |-> b] :
        b \in UNION {SampleBytes(n) :
                        n \in {0, 4, h * w * 2, h * w * 2 + 1,
                               h * w * 6}} }
    \cup
    { [kind |-> "zip", pad |-> pad, fname_len |-> fl, extra_len |-> el,
       blocks |-> nb, pixels |-> px] :
        pad \in 0..MaxPad, fl \in 0..MaxNameLen, el \in 0..MaxNameLen,
        nb \in {1, 2},
        px \in {Fill(n, f) : n \in {h * w * 6, h * w * 6 + 1},
                             f \in {7, 255}}
               \cup {ZipLocalSig \o Fill(h * w * 6 - 4, 7) : x \in
                        {y \in {1} : h * w > 0}} }

PayloadOf(b) == IF b.kind = "raw" THEN b.bytes ELSE ZipPayload(b)

DecodeIdle ==
    UNCHANGED <<listenerVars, evSet, pending, callerPc, threadVars,
                storeVars, feed, sessionVars, headerVars, wireVars,
                beatVars, liveVars>>

\* the caller passes the payload without its last bytes
CutPayload(n) ==
    /\ decoded = NotDecoded
    /\ ~touched
    /\ n < Len(imgPayload)
    /\ imgPayload' = SubSeq(imgPayload, 1, n)
    /\ touched' = TRUE
    /\ UNCHANGED <<imgHeader, built, decoded>>
    /\ DecodeIdle

\* the caller passes the payload with another value at one place
SetPayloadByte(i, v) ==
    /\ decoded = NotDecoded
    /\ ~touched
    /\ i \in 1..Len(imgPayload)
    /\ imgPayload[i] # v
    /\ imgPayload' = [imgPayload EXCEPT ![i] = v]
    /\ touched' = TRUE
    /\ UNCHANGED <<imgHeader, built, decoded>>
    /\ DecodeIdle

\* decode_payload(payload, header)
Decode ==
    /\ decoded = NotDecoded
    /\ decoded' = decode_payload(imgPayload, imgHeader)
    /\ UNCHANGED <<imgHeader, imgPayload, built, touched>>
    /\ DecodeIdle

DecodeInit ==
    /\ ListenerInit
    /\ StoreEmpty
    /\ feed = << >>
    /\ SessionStarted
    /\ _on_image = "none"
    /\ NoHeader
    /\ NoWire
    /\ imgHeader \in [width : 0..MaxDim, height : 0..MaxDim]
    /\ built \in Builds(imgHeader.width, imgHeader.height)
    /\ imgPayload = PayloadOf(built)
    /\ touched = FALSE
    /\ decoded = NotDecoded
    /\ NoBeat
    /\ NoLive

DecodeNext ==
    \/ \E n \in 0..(Len(imgPayload) - 1) : CutPayload(n)
    \/ \E i \in 1..Len(imgPayload) : SetPayloadByte(i, 255)
    \/ Decode

DecodeSpec == DecodeInit /\ [][DecodeNext]_vars

\* ---------------------------------------------------------------------
\* Claims about decode_payload
\* ---------------------------------------------------------------------

WasDecoded == decoded # NotDecoded

\* no payload of this specification makes zlib meet a Huffman block
StoredBlocksOnly == WasDecoded => decoded.raised # "huffman"

\* C22: for a header with width 0 or height 0, decode_payload raises the
\* ValueError of the empty frame, whatever the payload is (empty, raw
\* bytes, bytes with the archive signature), before any other check
C22_ZeroDimensionsFailFirst ==
    (WasDecoded /\ (imgHeader.width = 0 \/ imgHeader.height = 0))
    => /\ decoded.raised = "ValueError"
       /\ decoded.why = "zero dimension"

\* a header with one dimension 0 was decoded with a payload that holds the
\* archive signature
C22_Witness ==
    /\ WasDecoded
    /\ imgHeader.width = 0
    /\ imgHeader.height > 0
    /\ FindSig(imgPayload) # -1

\* C23: for h, w > 0 and a payload of exactly h*w*2 bytes of any values,
\* decode_payload returns the (h, w) array over those bytes, unmodified
C23_RawPayloadReturnedUnmodified ==
    (/\ WasDecoded
     /\ imgHeader.width > 0
     /\ imgHeader.height > 0
     /\ Len(imgPayload) = imgHeader.height * imgHeader.width * 2)
    => decoded = NdArray(<<imgHeader.height, imgHeader.width>>, imgPayload)

\* C24: for h, w > 0, pixels of h*w*3*2 bytes, any length of zero padding
\* and any lengths of file name and extra field, decode_payload of padding
\* + local entry + raw deflate of the pixels returns the (h, w, 3) array
\* over exactly those pixels
C24_ArchiveRoundTrip ==
    (/\ WasDecoded
     /\ built.kind = "zip"
     /\ ~touched
     /\ imgHeader.width > 0
     /\ imgHeader.height > 0
     /\ Len(built.pixels) = imgHeader.height * imgHeader.width * 3 * 2)
    => decoded = NdArray(<<imgHeader.height, imgHeader.width, 3>>,
                         built.pixels)

\* pixels deflated in two blocks behind padding, a file name and an extra
\* field were decoded to an array
C24_Witness ==
    /\ WasDecoded
    /\ built.kind = "zip"
    /\ ~touched
    /\ built.pad = MaxPad
    /\ built.fname_len = MaxNameLen
    /\ built.extra_len = MaxNameLen
    /\ built.blocks = 2
    /\ decoded.raised = "none"
    /\ decoded.shape = <<MaxDim, MaxDim, 3>>

\* C25: whatever payload decode_payload cannot decode (zero dimensions,
\* wrong size, truncated local entry, corrupt or empty compressed stream),
\* the only exception that leaves it is ValueError
C25_OnlyValueErrorEscapes ==
    WasDecoded => decoded.raised \in {"none", "ValueError"}

\* ---------------------------------------------------------------------
\* Claims about _read_frame
\* ---------------------------------------------------------------------

\* the number of bytes of the stream before the end of its i-th piece
EndOffset(i) == Len(Flatten(SubSeq(items, 1, i)))

\* the pieces that are whole frames, and the k-th of them
FrameIdx == {i \in 1..Len(items) : items[i].kind = "frame"}

KthFrame(k) ==
    CHOOSE i \in FrameIdx : Cardinality({j \in FrameIdx : j <= i}) = k

\* C27: every (header, payload) returned by _read_frame has the magic
\* 0x03C3 and a payload of header.length bytes, both of them bytes the
\* socket delivered; a call that does not return raises ConnectionError and
\* does so only when the closed stream is used up
C27_ReturnedFramesAreWhole ==
    \A i \in 1..Len(frames) :
        LET r == frames[i]
            n == Len(r.payload)
        IN  IF r.raised = "none"
            THEN /\ r.header.magic = MAGIC_NUMBER
                 /\ r.header.length = <<0, n>>
                 /\ r.pos <= Len(Wire)
                 /\ r.pos - n - HEADER_SIZE >= 0
                 /\ r.payload = SubSeq(Wire, r.pos - n + 1, r.pos)
                 /\ r.header = parse_header(SubSeq(Wire,
                                                   r.pos - n - HEADER_SIZE + 1,
                                                   r.pos - n))
            ELSE /\ r.raised = "ConnectionError"
                 /\ r.pos = Len(Wire)

\* a frame was returned whole, and the next call met the end of a stream
\* that stops in the middle of a frame
C27_Witness ==
    /\ Len(frames) = 2
    /\ frames[1].raised = "none"
    /\ Len(frames[1].payload) = 2
    /\ frames[2].raised = "ConnectionError"
    /\ items[Len(items)].kind = "cut"

\* C28: on a stream of JSON lines, zero padding and frames, the k-th call
\* of _read_frame returns the k-th frame intact and leaves the stream right
\* after its payload, whatever lines and padding precede it; the call
\* after the last frame raises ConnectionError
C28_LinesAndPaddingDiscarded ==
    (\A i \in 1..Len(items) : items[i].kind \in {"json", "pad", "frame"})
    => \A k \in 1..Len(frames) :
           IF k <= Cardinality(FrameIdx)
           THEN LET b == items[KthFrame(k)].bytes
                IN  /\ frames[k].raised = "none"
                    /\ frames[k].header
                           = parse_header(SubSeq(b, 1, HEADER_SIZE))
                    /\ frames[k].payload = SubSeq(b, HEADER_SIZE + 1, Len(b))
                    /\ frames[k].pos = EndOffset(KthFrame(k))
           ELSE frames[k].raised = "ConnectionError"

\* a line with the bytes 03 C3 inside, then two frames back to back, both
\* returned
C28_Witness ==
    /\ Len(items) = 3
    /\ items[1] = Piece("json", <<123, 3, 195, 125, 13, 10>>)
    /\ items[2].kind = "frame"
    /\ items[3].kind = "frame"
    /\ Len(frames) = 2
    /\ frames[2].raised = "none"
    /\ frames[2].pos = Len(Wire)

RECURSIVE LineEnd(_, _, _)
\* the position after the \r\n that ends the line begun at start, -1 when
\* the stream has none
LineEnd(st, start, p) ==
    IF p - start >= 2 /\ st[p - 1] = 13 /\ st[p] = 10 THEN p
    ELSE IF p >= Len(st) THEN -1
    ELSE LineEnd(st, start, p + 1)

RECURSIVE FirstMagic(_, _)
\* the number of bytes before the first pair 03 C3 of the stream that lies
\* outside a line of JSON, from position p on; -1 when there is none
FirstMagic(st, p) ==
    IF p >= Len(st) THEN -1
    ELSE IF st[p + 1] = 123
    THEN LET q == LineEnd(st, p, p + 1)
         IN  IF q = -1 THEN -1 ELSE FirstMagic(st, q)
    ELSE IF p + 2 <= Len(st) /\ st[p + 1] = 3 /\ st[p + 2] = 195 THEN p
    ELSE FirstMagic(st, p + 1)

\* a whole frame lies at m bytes into the stream
WholeFrameAt(st, m) ==
    /\ m + HEADER_SIZE <= Len(st)
    /\ LET h == parse_header(SubSeq(st, m + 1, m + HEADER_SIZE))
       IN  m + HEADER_SIZE + LengthOf(h.length) <= Len(st)

\* C29: the first call of _read_frame returns the frame that begins at the
\* first pair 03 C3 outside a line of JSON, whatever stray bytes precede
\* it, a stray 0x03 directly before the magic included
C29_SyncsOnFirstMagic ==
    LET m == FirstMagic(Wire, 0)
    IN  (Len(frames) >= 1 /\ m # -1 /\ WholeFrameAt(Wire, m))
        => /\ frames[1].raised = "none"
           /\ frames[1].pos - Len(frames[1].payload) - HEADER_SIZE = m

\* ---------------------------------------------------------------------
\* event_listener.py: heartbeat(), one task per connection of run()
\* ---------------------------------------------------------------------

BeatIdle ==
    UNCHANGED <<listenerVars, evSet, pending, callerPc, threadVars,
                storeVars, feed, sessionVars, headerVars, wireVars,
                decodeVars, liveVars>>

\* the tests of lines 36-43 with the 3-tick test in front of the offset one
HbMethodThirdFirst(i) ==
    IF i % 10 = 0 THEN "get_device_state"
    ELSE IF i % 3 = 1 THEN "scope_get_equ_coord"
    ELSE IF i % 10 = 4 THEN "iscope_get_app_state"
    ELSE "scope_get_horiz_coord"

\* heartbeat(), lines 36-43: method_name for the value i of hb_i
HbMethod(i) ==
    IF i % 10 = 0 THEN "get_device_state"
    ELSE IF i % 10 = 4 THEN "iscope_get_app_state"
    ELSE IF i % 3 = 1 THEN "scope_get_equ_coord"
    ELSE "scope_get_horiz_coord"

\* run(), lines 66-73: a connection is opened while no shutdown is asked
\* for, and a heartbeat task created for it; the task starts at line 34
BeatConnect ==
    /\ beatPc = "off"
    /\ ~beatShutdown
    /\ conns < MaxConnects
    /\ conns' = conns + 1
    /\ hb_i' = 0
    /\ naps' = 0
    /\ beatPc' = "due"
    /\ UNCHANGED <<beatShutdown, beatLog>>
    /\ BeatIdle

\* heartbeat(), lines 35-50: the loop condition, and when it holds the
\* method is chosen, hb_i counted and the message written
BeatRound ==
    /\ beatPc = "due"
    /\ IF beatShutdown
       THEN /\ beatPc' = "ended"
            /\ UNCHANGED <<hb_i, beatLog>>
       ELSE /\ hb_i < MaxBeats
            /\ beatLog' = Append(beatLog, [conn |-> conns,
                                           method |-> HbMethod(hb_i),
                                           naps |-> naps])
            /\ hb_i' = hb_i + 1
            /\ beatPc' = "sleeping"
    /\ UNCHANGED <<conns, naps, beatShutdown>>
    /\ BeatIdle

\* heartbeat(), line 54: asyncio.sleep(HEARTBEAT_INTERVAL) returns
BeatSleepDone ==
    /\ beatPc = "sleeping"
    /\ naps' = naps + 1
    /\ beatPc' = "due"
    /\ UNCHANGED <<conns, hb_i, beatShutdown, beatLog>>
    /\ BeatIdle

\* run(), lines 105-114: the connection is lost or the inner loop left,
\* and the heartbeat task is cancelled
BeatCancel ==
    /\ beatPc \in {"due", "sleeping", "ended"}
    /\ beatPc' = "off"
    /\ UNCHANGED <<conns, hb_i, naps, beatShutdown, beatLog>>
    /\ BeatIdle

\* stop_listener(): the shutdown event is set
BeatShutdown ==
    /\ ~beatShutdown
    /\ beatShutdown' = TRUE
    /\ UNCHANGED <<conns, hb_i, beatPc, naps, beatLog>>
    /\ BeatIdle

BeatInit ==
    /\ ListenerInit
    /\ StoreEmpty
    /\ feed = << >>
    /\ SessionStarted
    /\ _on_image = "none"
    /\ NoHeader
    /\ NoWire
    /\ NoDecode
    /\ NoBeat
    /\ NoLive

BeatNext ==
    \/ BeatConnect
    \/ BeatRound
    \/ BeatSleepDone
    \/ BeatCancel
    \/ BeatShutdown

BeatSpec == BeatInit /\ [][BeatNext]_vars

\* ---------------------------------------------------------------------
\* Claims about the listener's heartbeat
\* ---------------------------------------------------------------------

\* the tick index of the k-th message of the log: the number of messages
\* written before it on the same connection
TickOf(k) ==
    Cardinality({j \in 1..(k - 1) : beatLog[j].conn = beatLog[k].conn})

HbMethods ==
    {"get_device_state", "iscope_get_app_state", "scope_get_equ_coord",
     "scope_get_horiz_coord"}

ScheduledBeat(t, polling) ==
    IF polling /\ t % 2 = 0 THEN "get_stacked_img" ELSE "test_connection"

\* the number of entries of s equal to m
CountOf(s, m) == Cardinality({i \in 1..Len(s) : s[i] = m})

\* C32: the streaming heartbeat sends one message per interval, none
\* before the first interval has passed: the message of tick t (counted
\* from the start of the session) follows t + 1 waits, and it is
\* test_connection while polling is off, get_stacked_img on even and
\* test_connection on odd ticks while it is on; no test_connection is sent
\* outside a tick
C32_OneBeatPerInterval ==
    /\ [](/\ heartbeatPc = "waiting" => waits = tick
          /\ heartbeatPc = "sending" => waits = tick + 1
          /\ CountOf(sent, "test_connection") <= tick)
    /\ [][tick' # tick =>
            /\ tick' = tick + 1
            /\ waits = tick + 1
            /\ sent' = Append(sent, ScheduledBeat(tick, _poll_stacked))]_vars

\* with polling on, the heartbeat has sent get_stacked_img at tick 0 and
\* test_connection at tick 1, after the get_stacked_img of show()
C32_Witness ==
    /\ tick = 2
    /\ waits = 2
    /\ _poll_stacked
    /\ sent = <<"begin_streaming", "get_stacked_img", "get_stacked_img",
                "test_connection">>

HeartbeatMessages == {"test_connection", "get_stacked_img"}

\* C33: under every interleaving of stop() with the heartbeat thread, no
\* heartbeat message is written to the socket after stop_streaming:
\* stop_streaming is the last message sent
C33_StopStreamingIsLast ==
    \A i \in 1..Len(sent) :
        sent[i] = "stop_streaming"
        => \A j \in (i + 1)..Len(sent) : sent[j] \notin HeartbeatMessages

\* C34: once the stop event is set at most one more on_image invocation
\* begins (the reader was past its loop condition, reading a frame), and
\* none begins after the reader has seen the event and left its loop
C34_AtMostOneCallbackAfterStop ==
    /\ [](afterStop <= 1)
    /\ [][readerPc = "exited" =>
            (delivered' = delivered /\ readerPc' = "exited")]_vars

\* the stop event was set while the reader was reading; the frame was
\* delivered all the same, and the reader then left its loop
C34_Witness ==
    /\ afterStop = 1
    /\ readerPc = "exited"
    /\ readFailed = "no"
    /\ delivered = readOff

\* ---------------------------------------------------------------------
\* Claims about the listener's running flag and the event store
\* ---------------------------------------------------------------------

\* C35: whenever _listener_running is set and no stop_listener() is under
\* way, the listener thread is alive: the flag does not stay set after the
\* run loop has ended on its own
C35_RunningFlagMeansThreadAlive ==
    (_listener_running /\ callerPc # "joining")
    => (_listener_thread # NoneVal /\ ThreadAlive(_listener_thread))

\* C36: every key k of LATEST_STATE maps to a record whose event tag is k,
\* every entry of LATEST_LOGS carries a non-empty event tag, and a message
\* that reaches handle_event without an event tag or with an empty one
\* changes neither LATEST_STATE nor LATEST_LOGS
C36_StoreHoldsTaggedEventsOnly ==
    /\ [](/\ \A k \in DOMAIN LATEST_STATE :
                Truthy(k) /\ LATEST_STATE[k].Event = k
          /\ \A i \in 1..Len(LATEST_LOGS) : Truthy(LATEST_LOGS[i].Event))
    /\ [][(Len(handled') = Len(handled) + 1
             /\ handled'[Len(handled')].Event \in {"none", ""})
          => UNCHANGED <<LATEST_STATE, LATEST_LOGS>>]_vars

\* a message with an empty tag, a response and a message with no tag were
\* handed to handle_event; the store holds the response alone, under the
\* tag it was given
C36_Witness ==
    /\ Len(handled) = 3
    /\ handled[1].Event = ""
    /\ handled[2].hasResult
    /\ handled[3].Event = "none"
    /\ DOMAIN LATEST_STATE = {"get_device_state"}
    /\ LATEST_LOGS = <<handled[2]>>

\* ---------------------------------------------------------------------
\* stream.py: get_live_image
\* ---------------------------------------------------------------------

\* what no step of get_live_image changes
LiveIdle ==
    UNCHANGED <<listenerVars, evSet, pending, callerPc, threadVars,
                storeVars, feed, sessionVars, headerVars, items,
                decodeVars, beatVars>>

\* the socket after a try block with no finally clause, closed on the
\* normal way out only
SockAfterTryWithoutFinally(raised) ==
    IF raised = "none" THEN "closed" ELSE "open"

\* the socket after the try block of lines 530-534: the finally clause
\* closes it whether or not the block raised
SockAfterTry(raised) == "closed"

\* lines 527-529: _make_socket(ip, port) returns a connected socket, or
\* connect() raises and get_live_image ends before its try block with no
\* socket bound to sock
LiveMakeSocket ==
    /\ livePc = "idle"
    /\ \E connected \in BOOLEAN :
          IF connected
          THEN /\ liveSock' = "open"
               /\ livePc' = "try"
               /\ liveOut' = liveOut
          ELSE /\ liveSock' = "none"
               /\ livePc' = "raised"
               /\ liveOut' = "OSError"
    /\ UNCHANGED <<rpos, frames>>
    /\ LiveIdle

\* lines 530-534: _send_json(sock, method) sends the request or raises
\* OSError; when it was sent _read_frame(sock) returns a frame or raises;
\* the finally clause then closes the socket
LiveTry ==
    /\ livePc = "try"
    /\ \E requested \in BOOLEAN :
          IF requested
          THEN LET r == ReadFrame(Wire, rpos)
               IN  /\ frames' = Append(frames, r)
                   /\ rpos' = r.pos
                   /\ liveSock' = SockAfterTry(r.raised)
                   /\ livePc' = IF r.raised = "none" THEN "read" ELSE "raised"
                   /\ liveOut' = r.raised
          ELSE /\ liveSock' = SockAfterTry("OSError")
               /\ livePc' = "raised"
               /\ liveOut' = "OSError"
               /\ UNCHANGED <<rpos, frames>>
    /\ LiveIdle

\* lines 536-539: with a filename save_image(payload, header, filename)
\* writes the file or raises; header and payload are returned
LiveReturn ==
    /\ livePc = "read"
    /\ \E filename \in {"none", "latest.png"}, saved \in BOOLEAN :
          IF filename # "none" /\ ~saved
          THEN /\ livePc' = "raised"
               /\ liveOut' = "save_image"
          ELSE /\ livePc' = "returned"
               /\ liveOut' = IF filename = "none" THEN "frame" ELSE "saved"
    /\ UNCHANGED <<liveSock, rpos, frames>>
    /\ LiveIdle

LiveInit ==
    /\ ListenerInit
    /\ StoreEmpty
    /\ feed = << >>
    /\ SessionStarted
    /\ _on_image = "none"
    /\ NoHeader
    /\ items \in UNION {[1..n -> Pieces] : n \in 1..MaxItems}
    /\ rpos = 0
    /\ frames = << >>
    /\ NoDecode
    /\ NoBeat
    /\ NoLive

LiveNext ==
    \/ LiveMakeSocket
    \/ LiveTry
    \/ LiveReturn

LiveSpec == LiveInit /\ [][LiveNext]_vars

\* ---------------------------------------------------------------------
\* Claims about get_live_image
\* ---------------------------------------------------------------------

\* C37: once get_live_image has left its try block the socket that
\* _make_socket returned is closed: after a frame was read, and when the
\* request could not be sent or the frame could not be read, in which case
\* the call has ended with that error and returned nothing
C37_SocketClosedOnEveryPath ==
    /\ livePc \in {"read", "returned", "raised"} => liveSock # "open"
    /\ livePc \in {"read", "returned"}
         => /\ liveSock = "closed"
            /\ Len(frames) = 1
            /\ frames[1].raised = "none"
    /\ (livePc = "raised" /\ liveSock # "none")
         => /\ liveSock = "closed"
            /\ liveOut \in {"OSError", "ConnectionError", "ValueError",
                            "save_image"}
            /\ (frames # << >> /\ liveOut # "save_image")
                 => liveOut = frames[1].raised
            /\ frames = << >> => liveOut = "OSError"

\* the request was sent, the stream ended before a whole frame came, and
\* the call ended with ConnectionError and the socket closed
C37_Witness ==
    /\ livePc = "raised"
    /\ liveSock = "closed"
    /\ frames # << >>
    /\ frames[1].raised = "ConnectionError"
    /\ liveOut = "ConnectionError"

====
